---- MODULE Spec2Model ----
(***************************************************************************)
(* Activity / notification service: idempotent event ingest with fan-out,  *)
(* keyset-paginated feed reads, id-based notification polling and the      *)
(* in-process SSE broker.  The relational store is modelled as a           *)
(* READ COMMITTED database: rows written inside a transaction are visible  *)
(* to that transaction only until it commits, sequences hand out ids at    *)
(* INSERT time (not at commit time), a UNIQUE index makes a second         *)
(* inserter wait for the first one's commit or rollback, and               *)
(* SELECT ... FOR UPDATE takes a row lock held until the transaction ends. *)
(***************************************************************************)
EXTENDS Integers, Sequences, FiniteSets, TLC

\* ------------------------------------------------------------------ bounds

\* Number of ingest requests (POST /api/events) of one behaviour.
MaxCalls == 2

\* Number of those requests in the behaviours that also run SSE connections.
MaxStreamCalls == 1

\* Number of SSE connections (GET /api/notifications/stream) of one behaviour.
MaxConns == 1

\* Number of broker subscribers in the behaviours that exercise the broker
\* alone (several queues registered for one user).
MaxSubscribers == 2

\* Number of publish() calls in those behaviours.
MaxPublishes == 3

\* Number of Add calls on a sliding-window counter in one behaviour.
MaxAdds == 3

\* How many seconds the clock of a sliding-window counter advances.
MaxHorizon == 6

\* Largest k a Top call passes.
MaxTopK == 2

\* Capacity of a subscriber queue; stands for max_queue_size = 200 of
\* NotificationBroker.subscribe, small so that a queue does fill up.
MaxQueueSize == 1

\* Largest `limit` a reader passes (the code clamps to MAX_LIMIT).
MaxLimit == 2

NoKey == 0
NULL == 0

\* The empty cursor string (and a null next_cursor).
NoToken == <<>>

Calls == 1..MaxCalls
StreamCalls == {c \in Calls : c <= MaxStreamCalls}
Conns == 1..MaxConns
\* Every connection that may hold a broker subscription; the first MaxConns
\* of them are the ones of the ingest-driven behaviours.
Subscribers == 1..(IF MaxSubscribers > MaxConns THEN MaxSubscribers ELSE MaxConns)
Users == {1, 2}
Keys == {1}

\* The ingest requests of a behaviour: Idempotency-Key header (NoKey: absent),
\* target_user_ids as they arrive in the body (duplicates allowed), created_at.
Requests ==
    { [idem_key |-> NoKey, target_user_ids |-> <<>>,        created_at |-> 1],
      [idem_key |-> NoKey, target_user_ids |-> <<2, 1, 2>>, created_at |-> 2],
      [idem_key |-> 1,     target_user_ids |-> <<1>>,       created_at |-> 1],
      [idem_key |-> 1,     target_user_ids |-> <<2, 1, 2>>, created_at |-> 2],
      [idem_key |-> 1,     target_user_ids |-> <<>>,        created_at |-> 1] }

\* The requests without an Idempotency-Key header.
KeylessRequests == {r \in Requests : r.idem_key = NoKey}

\* Last-Event-ID values of an SSE connection after parsing (0: absent).
LastEventIds == {0, 1}

\* Last-Event-ID headers as they arrive, a string of characters: absent or
\* empty, "0", "1", and one that is not a number.
LastEventIdHeaders == {<<>>, <<"0">>, <<"1">>, <<"x">>}

\* ------------------------------------------------------------------ state

VARIABLES
    events,      \* committed Event rows
    feedItems,   \* committed FeedItem rows
    notifs,      \* committed Notification rows
    idemKeys,    \* committed IdempotencyKey rows
    seqEvent,    \* last id handed out by the Event id sequence
    seqFeed,     \* last id handed out by the FeedItem id sequence
    seqNotif,    \* last id handed out by the Notification id sequence
    lockHolder,  \* key -> call holding the FOR UPDATE row lock (0: nobody)
    pc,          \* call -> position in EventIngestView.post
    req,         \* call -> validated request: idem_key, data_target_user_ids (the list of
                 \* the body), target_user_ids (the list after line 76), created_at
    idem,        \* call -> "none" | "new" (row inserted by this tx) | "existing"
    ev,          \* call -> id of the Event this call inserted (0: none)
    txFeed,      \* call -> FeedItem rows written, not yet committed
    txNotif,     \* call -> Notification rows written, not yet committed
    bound,       \* call -> idem.event has been set in this tx
    res,         \* call -> HTTP response [status, event_id]
    pub,         \* call -> "none" | "registered" | "rows" | "done": _publish_after_commit
    pubRows,     \* call -> Notification rows _go() still has to publish
    subs,        \* broker._subs: user -> set of connections whose queue is registered
    subEntries,  \* the users broker._subs has an entry for (the keys of the dict)
    queue,       \* connection -> its asyncio.Queue, oldest first
    sent,        \* connection -> every message publish() handled for its queue, in order
    dropped,     \* connection -> the messages publish() dropped from its queue, in order
    published,   \* number of publish() calls so far
    cpc,         \* connection -> "closed" | "open" | "backfill" | "live" | "ended"
    cuser,       \* connection -> user_id of the stream
    lastEventId, \* connection -> Last-Event-ID it came with
    emitted,     \* connection -> what stream() has yielded, in order
    backlog,     \* connection -> backfill rows read from the store, not yet yielded
    pollUser,    \* the user of the polling client (GET /api/notifications)
    since,       \* the `since` the polling client passes next
    got,         \* ids of the notifications the polling client was given, in order
    pollResp,    \* the last poll: request (since, limit) and response (items, next_since)
    feedUser,    \* the user of the feed client (GET /api/feed)
    cursor,      \* the cursor the feed client passes next (NoToken: none)
    seen,        \* event ids the feed client was given, in order
    feedDone,    \* the feed client got next_cursor = null
    feedResp,    \* the last feed read: request (cursor, limit) and response
    atStart,     \* the FeedItems of the feed client's user when its traversal began
    codecIn,     \* the (created_at, feed_item_id) encode_feed_cursor was called with (NoCursor: none)
    codecToken,  \* the cursor token in hand: made by encode_feed_cursor or by a client
    codecOut,    \* what decode_feed_cursor gave for the token (NotDecoded: not called)
    window_seconds,      \* SlidingWindowTop.window_seconds
    bucket_size_seconds, \* SlidingWindowTop.bucket_size_seconds
    buckets,     \* SlidingWindowTop._buckets: slot -> [bucket_id, counts]
    total,       \* SlidingWindowTop._total: [key, count] entries in dict insertion order
    clock,       \* the time, in seconds, that Add and Top calls are made at
    adds,        \* every Add call so far, in order: key, ts, n
    topResult,   \* what the Top call just made returned, with its now and k (NoTop: none)
    ignored,     \* the Add call just made, when it returned at once (NoAdd: none)
    reg,         \* ActivityAnalytics: dimension -> window -> its SlidingWindowTop
    records,     \* every record() call so far, in order: object_id, verb, ts
    regTop,      \* the ActivityAnalytics.top call just made and its outcome (NoRegTop: none)
    ctr,         \* a SlidingWindowTop that several threads call
    lock,        \* its _lock: the thread that holds it (0: free)
    tpc,         \* thread -> position in add() or top()
    call,        \* thread -> its call: op, key, n, k, ts, the count it read, what it returned
    calls,       \* number of calls the threads have made
    lin,         \* the counter the same calls give when run one after another, in lock order
    linRet,      \* thread -> what its top() returns in that run
    rejected     \* the request a handler has just turned away: endpoint, X-User-Id
                 \* header, actor_id or user_id it named, status (NoReject: none)

storeVars == <<events, feedItems, notifs, idemKeys>>
seqVars == <<seqEvent, seqFeed, seqNotif>>
callVars == <<pc, req, idem, ev, txFeed, txNotif, bound, res>>
pubVars == <<pub, pubRows>>
connVars == <<cpc, cuser, lastEventId, emitted, backlog>>
publishVars == <<queue, sent, dropped, published>>
brokerVars == <<subs, subEntries, publishVars>>
pollVars == <<pollUser, since, got, pollResp>>
codecVars == <<codecIn, codecToken, codecOut>>
feedVars == <<feedUser, cursor, seen, feedDone, feedResp, atStart, codecVars>>
clientVars == <<pollVars, feedVars>>
registryVars == <<reg, records, regTop>>
threadVars == <<ctr, lock, tpc, call, calls, lin, linRet>>
analyticsVars == <<window_seconds, bucket_size_seconds, buckets, total, clock, adds, topResult,
                   ignored, registryVars, threadVars>>
ingestVars == <<storeVars, seqVars, lockHolder, callVars, pubVars>>
authVars == <<rejected>>
vars == <<ingestVars, brokerVars, connVars, clientVars, analyticsVars, authVars>>

NoReq == [idem_key |-> NoKey, data_target_user_ids |-> <<>>, target_user_ids |-> <<>>,
          created_at |-> 0]
NoRes == [status |-> 0, event_id |-> 0]

InitStore ==
    /\ events = {}
    /\ feedItems = {}
    /\ notifs = {}
    /\ idemKeys = {}
    /\ seqEvent = 0
    /\ seqFeed = 0
    /\ seqNotif = 0
    /\ lockHolder = [k \in Keys |-> 0]

NoReject == [endpoint |-> "none", header |-> <<>>, id |-> <<>>, status |-> 0]

InitCalls ==
    /\ rejected = NoReject
    /\ pc = [c \in Calls |-> "idle"]
    /\ req = [c \in Calls |-> NoReq]
    /\ idem = [c \in Calls |-> "none"]
    /\ ev = [c \in Calls |-> 0]
    /\ txFeed = [c \in Calls |-> {}]
    /\ txNotif = [c \in Calls |-> {}]
    /\ bound = [c \in Calls |-> FALSE]
    /\ res = [c \in Calls |-> NoRes]
    /\ pub = [c \in Calls |-> "none"]
    /\ pubRows = [c \in Calls |-> {}]


InitBroker ==
    /\ subs = [u \in Users |-> {}]
    /\ subEntries = {}
    /\ queue = [n \in Subscribers |-> <<>>]
    /\ sent = [n \in Subscribers |-> <<>>]
    /\ dropped = [n \in Subscribers |-> <<>>]
    /\ published = 0
    /\ cpc = [n \in Subscribers |-> "closed"]
    /\ cuser = [n \in Subscribers |-> 0]
    /\ lastEventId = [n \in Subscribers |-> 0]
    /\ emitted = [n \in Subscribers |-> <<>>]
    /\ backlog = [n \in Subscribers |-> <<>>]

NoPollResp == [since |-> 0, limit |-> 0, items |-> <<>>, next_since |-> 0]
NoFeedResp == [cursor |-> NoToken, limit |-> 0, status |-> 0, page |-> <<>>, items |-> <<>>,
               next_cursor |-> NoToken]

InitPollClient ==
    /\ since = 0
    /\ got = <<>>
    /\ pollResp = NoPollResp

\* What decode_feed_cursor gives back when it is not a cursor: None, and an
\* exception that leaves the function.
NoCursor == [created_at |-> -1, feed_item_id |-> 0]
Raised == [created_at |-> -2, feed_item_id |-> 0]

\* decode_feed_cursor has not been called.
NotDecoded == [created_at |-> -3, feed_item_id |-> 0]

InitCodec ==
    /\ codecIn = NoCursor
    /\ codecToken = NoToken
    /\ codecOut = NotDecoded

InitFeedClient ==
    /\ InitCodec
    /\ cursor = NoToken
    /\ seen = <<>>
    /\ feedDone = FALSE
    /\ feedResp = NoFeedResp
    /\ atStart = {}

\* analytics.py 12: bucket_id of a bucket that holds nothing (None).
NoBucket == -1

\* The time of the first call on a counter (tests.py 77).
StartTime == 100

\* Keys counted (object ids or verbs), and the (key, n) of the Add calls.
TopKeys == {"a", "b"}
AddInputs == {<<"a", 1>>, <<"a", 2>>, <<"b", 1>>}

\* (window_seconds, bucket_size_seconds) a SlidingWindowTop is built with:
\* the "1m" counter of the registry, and small windows, one of them not a
\* multiple of its bucket size.
WindowParams == {<<60, 5>>, <<4, 2>>, <<3, 2>>}

\* analytics.py 33: num_buckets = max(1, ceil(window / bucket_size))
NumBucketsOf(w, b) ==
    LET n == (w + b - 1) \div b IN IF n < 1 THEN 1 ELSE n

\* analytics.py 10-13: _Bucket()
EmptyBucket == [bucket_id |-> NoBucket, counts |-> [k \in TopKeys |-> 0]]

NoTop == [now |-> 0, k |-> 0, items |-> <<>>]
NoAdd == [key |-> "", ts |-> 0, n |-> 0]

\* analytics.py 26-37: SlidingWindowTop(window_seconds=w, bucket_size_seconds=b)
InitCounter(w, b) ==
    /\ window_seconds = w
    /\ bucket_size_seconds = b
    /\ buckets = [i \in 0..(NumBucketsOf(w, b) - 1) |-> EmptyBucket]
    /\ total = <<>>
    /\ clock = StartTime
    /\ adds = <<>>
    /\ topResult = NoTop
    /\ ignored = NoAdd

\* analytics.py 98-107: the two dimensions and the three windows of the registry.
Dimensions == {"object_id", "verb"}
Windows == {"1m", "5m", "1h"}

WindowSeconds(window) ==
    CASE window = "1m" -> 60
      [] window = "5m" -> 300
      [] window = "1h" -> 3600

\* analytics.py 99-106: bucket_size_seconds=5 of every counter of the registry.
REGISTRY_BUCKET_SIZE == 5

\* The object ids and verbs of the events that are recorded.
ObjectIds == {"a", "b"}
Verbs == {"like"}

\* analytics.py 35-36: a counter object.  Of the ring only the slots that
\* hold a bucket are kept: a slot outside DOMAIN buckets is a _Bucket()
\* with bucket_id None and no counts.
NoSlots == [i \in {} |-> EmptyBucket]

NewCounter(w, b) ==
    [window_seconds |-> w, bucket_size_seconds |-> b, buckets |-> NoSlots, total |-> <<>>]

NoRegTop == [window |-> "", by |-> "", k |-> 0, now |-> 0, error |-> "", items |-> <<>>]

\* analytics.py 97-107: ActivityAnalytics()
InitRegistry ==
    /\ reg = [d \in Dimensions |->
                 [w \in Windows |-> NewCounter(WindowSeconds(w), REGISTRY_BUCKET_SIZE)]]
    /\ records = <<>>
    /\ regTop = NoRegTop

\* Number of threads that call one counter.
MaxThreads == 2

Threads == 1..MaxThreads

NoCall == [op |-> "", key |-> "", n |-> 0, k |-> 0, ts |-> 0, read |-> 0, ret |-> <<>>]

\* A counter shared by threads, none of them inside a call.
InitThreads ==
    /\ ctr = NewCounter(4, 2)
    /\ lock = 0
    /\ tpc = [t \in Threads |-> "idle"]
    /\ call = [t \in Threads |-> NoCall]
    /\ calls = 0
    /\ lin = NewCounter(4, 2)
    /\ linRet = [t \in Threads |-> <<>>]

\* analytics.py 99: the "1m" counter of the registry, the registry, and the
\* counter the threads share.
InitAnalytics == InitCounter(60, 5) /\ InitRegistry /\ InitThreads

Init ==
    /\ InitStore /\ InitCalls /\ InitBroker
    /\ pollUser = 1 /\ InitPollClient
    /\ feedUser = 1 /\ InitFeedClient
    /\ InitAnalytics

\* ------------------------------------------------------------------ helpers

\* Mutant: the last occurrences, in order.
DedupeKeepsLast(s) ==
    LET F[i \in 0..Len(s)] ==
            IF i = 0 THEN <<>>
            ELSE IF \E j \in 1..(i - 1) : s[Len(s) + 1 - j] = s[Len(s) + 1 - i]
                 THEN F[i - 1]
                 ELSE <<s[Len(s) + 1 - i]>> \o F[i - 1]
    IN F[Len(s)]

\* list(dict.fromkeys(xs)): first occurrences, in order.
Dedupe(s) ==
    LET F[i \in 0..Len(s)] ==
            IF i = 0 THEN <<>>
            ELSE IF \E j \in 1..(i - 1) : s[j] = s[i]
                 THEN F[i - 1]
                 ELSE Append(F[i - 1], s[i])
    IN F[Len(s)]

Range(s) == {s[i] : i \in 1..Len(s)}

\* bulk_create(..., ignore_conflicts=True): one INSERT ... ON CONFLICT DO
\* NOTHING; every proposed row draws the next id of the sequence, a row whose
\* (user_id, event) already exists is dropped.
BulkCreate(visible, targets, event_id, created_at, seq) ==
    LET F[i \in 0..Len(targets)] ==
            IF i = 0 THEN [rows |-> {}, seq |-> seq]
            ELSE LET p == F[i - 1]
                     id == p.seq + 1
                     dup == \E r \in visible \cup p.rows :
                                r.user_id = targets[i] /\ r.event_id = event_id
                 IN [rows |-> IF dup THEN p.rows
                              ELSE p.rows \cup {[id |-> id,
                                                 user_id |-> targets[i],
                                                 event_id |-> event_id,
                                                 created_at |-> created_at]},
                     seq |-> id]
    IN F[Len(targets)]

InTx == {"idem", "select", "event", "fanout", "commit"}

\* Mutant: the key column has no UNIQUE index, no INSERT ever waits.
KeyInsertNeverBlocked(c, k) == FALSE

\* The UNIQUE index on IdempotencyKey.key: an INSERT of a key that another
\* open transaction has inserted waits until that transaction ends.
KeyInsertBlocked(c, k) ==
    \E d \in Calls \ {c} : pc[d] \in InTx /\ idem[d] = "new" /\ req[d].idem_key = k

\* Mutant: the committed rows of a key are not seen.
KeyRowsNone(k) == {}

KeyRows(k) == {r \in idemKeys : r.key = k}

\* Mutant: the short-circuit is never taken.
IsReplayNever(row) == FALSE

\* Mutant: the short-circuit is taken whatever the row holds.
IsReplayAlways(row) == TRUE

\* views.py 91: existing.event_id is not None
IsReplay(row) == row.event_id # NULL

\* ------------------------------------------------------------------ ingest

\* views.py 57-80: header check, validation, de-dupe, read Idempotency-Key,
\* open the outer transaction.  Calls are numbered in order of arrival.
BeginWith(c, requests) ==
    /\ pc[c] = "idle"
    /\ IF c = 1 THEN TRUE ELSE pc[c - 1] # "idle"
    /\ \E r \in requests :
          /\ req' = [req EXCEPT ![c] = [idem_key |-> r.idem_key,
                                        data_target_user_ids |-> r.target_user_ids,
                                        target_user_ids |-> Dedupe(r.target_user_ids),
                                        created_at |-> r.created_at]]
          /\ pc' = [pc EXCEPT ![c] = IF r.idem_key # NoKey THEN "idem" ELSE "event"]
    /\ UNCHANGED <<storeVars, seqVars, lockHolder, idem, ev, txFeed, txNotif, bound, res,
                   pubVars, brokerVars, connVars, clientVars, analyticsVars, authVars>>

Begin(c) == BeginWith(c, Requests)

\* views.py 86-89: IdempotencyKey.objects.create(key=...) inside a savepoint.
IdemCreate(c) ==
    /\ pc[c] = "idem"
    /\ ~KeyInsertBlocked(c, req[c].idem_key)
    /\ IF KeyRows(req[c].idem_key) # {}
       THEN \* IntegrityError: the savepoint is rolled back
            /\ pc' = [pc EXCEPT ![c] = "select"]
            /\ UNCHANGED idem
       ELSE /\ idem' = [idem EXCEPT ![c] = "new"]
            /\ pc' = [pc EXCEPT ![c] = "event"]
    /\ UNCHANGED <<storeVars, seqVars, lockHolder, req, ev, txFeed, txNotif, bound, res,
                   pubVars, brokerVars, connVars, clientVars, analyticsVars, authVars>>

\* views.py 90-94: select_for_update().get(key=...), then the short-circuit.
IdemSelect(c) ==
    /\ pc[c] = "select"
    /\ lockHolder[req[c].idem_key] = 0
    /\ \E row \in KeyRows(req[c].idem_key) :
          IF IsReplay(row)
          THEN \* return Response({"event_id": existing.event_id}, 200); T commits
               /\ res' = [res EXCEPT ![c] = [status |-> 200, event_id |-> row.event_id]]
               /\ pc' = [pc EXCEPT ![c] = "done"]
               /\ UNCHANGED <<lockHolder, idem>>
          ELSE /\ idem' = [idem EXCEPT ![c] = "existing"]
               /\ lockHolder' = [lockHolder EXCEPT ![req[c].idem_key] = c]
               /\ pc' = [pc EXCEPT ![c] = "event"]
               /\ UNCHANGED res
    /\ UNCHANGED <<storeVars, seqVars, req, ev, txFeed, txNotif, bound,
                   pubVars, brokerVars, connVars, clientVars, analyticsVars, authVars>>

\* views.py 98-104: Event.objects.create(...)
InsertEvent(c) ==
    /\ pc[c] = "event"
    /\ seqEvent' = seqEvent + 1
    /\ ev' = [ev EXCEPT ![c] = seqEvent + 1]
    /\ pc' = [pc EXCEPT ![c] = "fanout"]
    /\ UNCHANGED <<storeVars, seqFeed, seqNotif, lockHolder, req, idem, txFeed, txNotif,
                   bound, res, pubVars, brokerVars, connVars, clientVars, analyticsVars, authVars>>

\* views.py 106-184: the two bulk_create(..., ignore_conflicts=True) statements
\* (FeedItem first, then Notification), idem.event = event; idem.save(), and
\* transaction.on_commit(_publish_after_commit) when there are targets.
\* The rows are written where only this transaction sees them; what the
\* statements share with other transactions is the id sequences.
\* Mutant: on_commit is registered whatever the targets.
SchedulesPublishAlways(target_user_ids) == TRUE

\* views.py 128: if target_user_ids:
SchedulesPublish(target_user_ids) == target_user_ids # <<>>

FanOut(c) ==
    /\ pc[c] = "fanout"
    /\ LET t == req[c].target_user_ids
           f == BulkCreate(feedItems \cup txFeed[c], t, ev[c], req[c].created_at, seqFeed)
           n == BulkCreate(notifs \cup txNotif[c], t, ev[c], req[c].created_at, seqNotif)
       IN /\ txFeed' = [txFeed EXCEPT ![c] = @ \cup f.rows]
          /\ seqFeed' = f.seq
          /\ txNotif' = [txNotif EXCEPT ![c] = @ \cup n.rows]
          /\ seqNotif' = n.seq
          /\ pub' = [pub EXCEPT ![c] = IF SchedulesPublish(t) THEN "registered" ELSE "none"]
    /\ bound' = [bound EXCEPT ![c] = idem[c] # "none"]
    /\ pc' = [pc EXCEPT ![c] = "commit"]
    /\ UNCHANGED <<storeVars, seqEvent, lockHolder, req, idem, ev, res, pubRows,
                   brokerVars, connVars, clientVars, analyticsVars, authVars>>

\* Mutant: the key row and its binding do not survive the commit.
CommittedKeysLost(c) == idemKeys

\* The IdempotencyKey table after call c's transaction commits.
CommittedKeys(c) ==
    LET k == req[c].idem_key
        e == IF bound[c] THEN ev[c] ELSE NULL
    IN CASE idem[c] = "new" -> idemKeys \cup {[key |-> k, event_id |-> e]}
         [] idem[c] = "existing" ->
                {IF r.key = k /\ bound[c] THEN [r EXCEPT !.event_id = e] ELSE r : r \in idemKeys}
         [] OTHER -> idemKeys

\* Mutant: the Notification rows are written outside the transaction's commit.
CommittedNotifsDropped(c) == notifs

\* The rows call c's transaction makes visible when it commits.
CommittedEvents(c) == events \cup {[id |-> ev[c], created_at |-> req[c].created_at]}
CommittedFeed(c) == feedItems \cup txFeed[c]
CommittedNotifs(c) == notifs \cup txNotif[c]

ReleaseLocks(c) == [k \in DOMAIN lockHolder |-> IF lockHolder[k] = c THEN 0 ELSE lockHolder[k]]

\* views.py 80, 186: the outer atomic() block exits normally: COMMIT, then
\* return 201.
Commit(c) ==
    /\ pc[c] = "commit"
    /\ events' = CommittedEvents(c)
    /\ feedItems' = CommittedFeed(c)
    /\ notifs' = CommittedNotifs(c)
    /\ idemKeys' = CommittedKeys(c)
    /\ txFeed' = [txFeed EXCEPT ![c] = {}]
    /\ txNotif' = [txNotif EXCEPT ![c] = {}]
    /\ lockHolder' = ReleaseLocks(c)
    /\ res' = [res EXCEPT ![c] = [status |-> 201, event_id |-> ev[c]]]
    /\ pc' = [pc EXCEPT ![c] = "done"]
    /\ UNCHANGED <<seqVars, req, idem, ev, bound, pubVars, brokerVars, connVars, clientVars, analyticsVars, authVars>>

\* Mutant: the key's INSERT is committed on its own, a later exception does
\* not take the row back.
AbortKeepsKey(c) ==
    /\ pc[c] \in InTx
    /\ idemKeys' = IF idem[c] = "new"
                   THEN idemKeys \cup {[key |-> req[c].idem_key, event_id |-> NULL]}
                   ELSE idemKeys
    /\ txFeed' = [txFeed EXCEPT ![c] = {}]
    /\ txNotif' = [txNotif EXCEPT ![c] = {}]
    /\ lockHolder' = ReleaseLocks(c)
    /\ res' = [res EXCEPT ![c] = [status |-> 500, event_id |-> 0]]
    /\ pc' = [pc EXCEPT ![c] = "failed"]
    /\ idem' = [idem EXCEPT ![c] = "none"]
    /\ ev' = [ev EXCEPT ![c] = 0]
    /\ bound' = [bound EXCEPT ![c] = FALSE]
    /\ pub' = [pub EXCEPT ![c] = "none"]
    /\ UNCHANGED <<events, feedItems, notifs, seqVars, req, pubRows, brokerVars, connVars, clientVars, analyticsVars, authVars>>

\* views.py 80: an exception inside the atomic() block (StoreError): ROLLBACK;
\* the on_commit hook is discarded and the handler's locals are gone.
\* Sequence values drawn by the transaction are not given back.
Abort(c) ==
    /\ pc[c] \in InTx
    /\ txFeed' = [txFeed EXCEPT ![c] = {}]
    /\ txNotif' = [txNotif EXCEPT ![c] = {}]
    /\ lockHolder' = ReleaseLocks(c)
    /\ res' = [res EXCEPT ![c] = [status |-> 500, event_id |-> 0]]
    /\ pc' = [pc EXCEPT ![c] = "failed"]
    /\ idem' = [idem EXCEPT ![c] = "none"]
    /\ ev' = [ev EXCEPT ![c] = 0]
    /\ bound' = [bound EXCEPT ![c] = FALSE]
    /\ pub' = [pub EXCEPT ![c] = "none"]
    /\ UNCHANGED <<storeVars, seqVars, req, pubRows, brokerVars, connVars, clientVars, analyticsVars, authVars>>

\* ------------------------------------------------------------------ publish

\* Mutant: the hook runs as soon as it is registered, inside the transaction.
OnCommitFiredAtRegistration(c) == pc[c] \in {"commit", "done"}

\* transaction.on_commit: the hook runs once the outermost atomic() has committed.
OnCommitFired(c) == pc[c] = "done"

\* Mutant: the probe never finds a subscriber, the publish is always skipped.
NoSubscribers(users) == FALSE

\* sse.py 79-81: any_subscribers(user_ids)
AnySubscribers(users) == \E u \in users : subs[u] # {}

\* The Notification rows the connection of call c reads: committed rows and
\* the rows of its own open transaction.
VisibleNotifs(c) == notifs \cup txNotif[c]

\* views.py 138-157: Notification.objects.filter(event_id=..., user_id__in=...)
PublishQuery(c) ==
    {r \in VisibleNotifs(c) : r.event_id = ev[c] /\ r.user_id \in Range(req[c].target_user_ids)}

\* Mutant: the message carries the event id where the notification id belongs.
MessageOfEvent(r) == [notification_id |-> r.event_id, user_id |-> r.user_id, event_id |-> r.event_id]

\* views.py 159-173: the message built from a Notification row.
Message(r) == [notification_id |-> r.id, user_id |-> r.user_id, event_id |-> r.event_id]

\* views.py 131-157: _publish_after_commit starts _go(): return when nobody
\* listens, else read the rows of the event.
PublishCheck(c) ==
    /\ pub[c] = "registered"
    /\ OnCommitFired(c)
    /\ IF AnySubscribers(Range(req[c].target_user_ids)) /\ PublishQuery(c) # {}
       THEN /\ pubRows' = [pubRows EXCEPT ![c] = PublishQuery(c)]
            /\ pub' = [pub EXCEPT ![c] = "rows"]
       ELSE /\ pub' = [pub EXCEPT ![c] = "done"]
            /\ UNCHANGED pubRows
    /\ UNCHANGED <<storeVars, seqVars, lockHolder, callVars, brokerVars, connVars, clientVars, analyticsVars, authVars>>

\* Mutant: a full queue refuses the new message instead of giving up its oldest.
DeliverNoDropOldest(q, msg) ==
    IF Len(q) >= MaxQueueSize THEN q ELSE Append(q, msg)

\* sse.py 66-77: one queue's turn in publish(): drop the oldest when full,
\* then put_nowait; QueueFull drops the new message.
Deliver(q, msg) ==
    LET q1 == IF Len(q) >= MaxQueueSize /\ q # <<>> THEN Tail(q) ELSE q
    IN IF Len(q1) >= MaxQueueSize THEN q1 ELSE Append(q1, msg)

\* sse.py 68-77: what that turn throws away: the element get_nowait() took
\* out of a full queue, and the new message when put_nowait() raises QueueFull.
DroppedBy(q, msg) ==
    LET full == Len(q) >= MaxQueueSize /\ q # <<>>
        q1 == IF full THEN Tail(q) ELSE q
    IN (IF full THEN <<Head(q)>> ELSE <<>>)
       \o (IF Len(q1) >= MaxQueueSize THEN <<msg>> ELSE <<>>)

\* Mutant: publish() stops at the first queue of the snapshot.
SnapshotFirstOnly(user_id) ==
    IF subs[user_id] = {} THEN {}
    ELSE {CHOOSE n \in subs[user_id] : \A m \in subs[user_id] : n <= m}

\* Mutant: publish() hands the message to the queues of every user.
SnapshotEveryone(user_id) == UNION {subs[u] : u \in Users}

\* sse.py 61-64: queues = list(self._subs.get(user_id, ())), taken under the lock.
Snapshot(user_id) == subs[user_id]

\* Mutant: publish() waits at a full queue and never gets to the queues after it.
PublishUntilFull(user_id, msg) ==
    [n \in Subscribers |->
        IF /\ n \in Snapshot(user_id)
           /\ \A m \in Snapshot(user_id) : m <= n => Len(queue[m]) < MaxQueueSize
        THEN Deliver(queue[n], msg)
        ELSE queue[n]]

\* sse.py 60-77: publish(user_id, message): snapshot the registry, then every queue.
Publish(user_id, msg) ==
    [n \in Subscribers |->
        IF n \in Snapshot(user_id) THEN Deliver(queue[n], msg) ELSE queue[n]]

\* sse.py 60-77: one call of publish() with what it leaves behind: the
\* queues, and the record of what each queue was handed and what it lost.
\* The loop over the snapshot has no await: it runs in one piece.
PublishCall(user_id, msg) ==
    /\ queue' = Publish(user_id, msg)
    /\ sent' = [n \in Subscribers |->
                   IF n \in Snapshot(user_id) THEN Append(sent[n], msg) ELSE sent[n]]
    /\ dropped' = [n \in Subscribers |->
                      IF n \in Snapshot(user_id)
                      THEN dropped[n] \o DroppedBy(queue[n], msg)
                      ELSE dropped[n]]
    /\ published' = published + 1

\* The k-th message a caller of the broker publishes, to user u.
BrokerMessage(k, u) == [notification_id |-> k, user_id |-> u, event_id |-> 0]

\* A caller of the broker publishes the next message to some user.
BrokerPublish ==
    /\ published < MaxPublishes
    /\ \E u \in Users : PublishCall(u, BrokerMessage(published + 1, u))
    /\ UNCHANGED <<ingestVars, subs, subEntries, connVars, clientVars, analyticsVars, authVars>>

\* views.py 158-174: for r in rows: await broker.publish(int(r["user_id"]), msg).
\* The query has no ORDER BY: the rows come in any order.
PublishRow(c) ==
    /\ pub[c] = "rows"
    /\ \E r \in pubRows[c] :
          /\ PublishCall(r.user_id, Message(r))
          /\ pubRows' = [pubRows EXCEPT ![c] = @ \ {r}]
          /\ pub' = [pub EXCEPT ![c] = IF pubRows[c] = {r} THEN "done" ELSE "rows"]
    /\ UNCHANGED <<storeVars, seqVars, lockHolder, callVars, subs, subEntries, connVars, clientVars, analyticsVars, authVars>>

\* ------------------------------------------------------------------ SSE stream

\* views.py 286-298 / 357-361: Notification rows of a user with id > since,
\* ascending by id, at most `limit` of them.
RECURSIVE AscendingFrom(_, _, _)
AscendingFrom(rows, after, limit) ==
    LET later == {r \in rows : r.id > after}
    IN IF limit = 0 \/ later = {} THEN <<>>
       ELSE LET first == CHOOSE r \in later : \A o \in later : r.id <= o.id
            IN <<first>> \o AscendingFrom(rows, first.id, limit - 1)

NotifsSince(user_id, after, limit) ==
    AscendingFrom({r \in notifs : r.user_id = user_id}, after, limit)

\* views.py 360: [:200]
BACKFILL_LIMIT == 200

\* int(): the value of a string of decimal digits, -1 for anything else
\* (ValueError).
ParseInt(text) ==
    IF text = <<"0">> THEN 0
    ELSE IF text = <<"1">> THEN 1
    ELSE -1

\* views.py 342-346: Last-Event-ID: absent, empty or not a number gives 0.
ParseLastEventId(raw) ==
    IF raw = <<>> THEN 0
    ELSE IF ParseInt(raw) = -1 THEN 0
    ELSE ParseInt(raw)

\* sse.py 45-49: subscribe(user_id): a new empty queue, registered for the user.
Subscribe(n, user_id) ==
    /\ subs' = [subs EXCEPT ![user_id] = @ \cup {n}]
    /\ subEntries' = subEntries \cup {user_id}
    /\ queue' = [queue EXCEPT ![n] = <<>>]

\* Mutant: unsubscribe leaves the registry as it is.
UnsubscribedNot(n) == subs

\* sse.py 51-58: unsubscribe(sub): the queue leaves the registry.
Unsubscribed(n) == [u \in Users |-> subs[u] \ {n}]

\* Mutant: the entry of a user stays when its last queue has left.
EntriesKept(n) == subEntries

\* sse.py 53-58: the entries after unsubscribe(sub): nothing happens when
\* the user has no queue; the entry is popped when its set becomes empty.
EntriesAfter(n) ==
    IF subs[cuser[n]] = {} THEN subEntries
    ELSE IF subs[cuser[n]] \ {n} = {} THEN subEntries \ {cuser[n]}
    ELSE subEntries

\* sse.py 51-58: unsubscribe(sub) called once more with a handle that was
\* unsubscribed before.
UnsubscribeAgain(n) ==
    /\ cpc[n] = "ended"
    /\ \A u \in Users : n \notin subs[u]
    /\ subs' = Unsubscribed(n)
    /\ subEntries' = EntriesAfter(n)
    /\ cpc' = [cpc EXCEPT ![n] = "gone"]
    /\ UNCHANGED <<ingestVars, publishVars, cuser, lastEventId, emitted, backlog, clientVars, analyticsVars, authVars>>

\* views.py 342-348, 376-379: the handler, the header and user_id checked, reads
\* Last-Event-ID, subscribes (sse.py 45-49) and returns the streaming
\* response; stream() has not run yet.
\* Connections are numbered in the order in which they arrive.
ConnectAs(n, users, headers) ==
    /\ cpc[n] = "closed"
    /\ IF n = 1 THEN TRUE ELSE cpc[n - 1] # "closed"
    /\ \E u \in users, raw \in headers :
          /\ cuser' = [cuser EXCEPT ![n] = u]
          /\ lastEventId' = [lastEventId EXCEPT ![n] = ParseLastEventId(raw)]
          /\ Subscribe(n, u)
    /\ cpc' = [cpc EXCEPT ![n] = "open"]
    /\ UNCHANGED <<ingestVars, sent, dropped, published, emitted, backlog,
                   clientVars, analyticsVars, authVars>>

\* A connection of any user.
ConnectWith(n, headers) == ConnectAs(n, Users, headers)

Connect(n) == ConnectWith(n, LastEventIdHeaders)

\* A first connection: the client sends no Last-Event-ID header.
ConnectFresh(n) == ConnectWith(n, {<<>>})

\* Mutant: the stream backfills whether or not the client resumes.
ResumesAlways(n) == TRUE

\* views.py 356: if last_event_id > 0
Resumes(n) == lastEventId[n] > 0

\* views.py 351-361: stream() starts: the retry hint, then, when the client
\* resumes, the backfill query.
StreamStart(n) ==
    /\ cpc[n] = "open"
    /\ LET rows == IF Resumes(n)
                   THEN NotifsSince(cuser[n], lastEventId[n], BACKFILL_LIMIT)
                   ELSE <<>>
       IN /\ backlog' = [backlog EXCEPT ![n] = rows]
          /\ cpc' = [cpc EXCEPT ![n] = IF rows = <<>> THEN "live" ELSE "backfill"]
    /\ emitted' = [emitted EXCEPT ![n] = <<[kind |-> "retry", id |-> 0]>>]
    /\ UNCHANGED <<ingestVars, brokerVars, cuser, lastEventId, clientVars, analyticsVars, authVars>>

\* views.py 362-364: the backfill loop yields the next row it read.
BackfillEmit(n) ==
    /\ cpc[n] = "backfill"
    /\ emitted' = [emitted EXCEPT ![n] =
           Append(@, [kind |-> "backfill", id |-> Head(backlog[n]).id])]
    /\ backlog' = [backlog EXCEPT ![n] = Tail(@)]
    /\ cpc' = [cpc EXCEPT ![n] = IF Len(backlog[n]) = 1 THEN "live" ELSE "backfill"]
    /\ UNCHANGED <<ingestVars, brokerVars, cuser, lastEventId, clientVars, analyticsVars, authVars>>

\* views.py 367-370: the live loop takes the next message of the queue.
LiveRecv(n) ==
    /\ cpc[n] = "live"
    /\ queue[n] # <<>>
    /\ emitted' = [emitted EXCEPT ![n] =
           Append(@, [kind |-> "live", id |-> Head(queue[n]).notification_id])]
    /\ queue' = [queue EXCEPT ![n] = Tail(@)]
    /\ UNCHANGED <<ingestVars, subs, subEntries, sent, dropped, published,
                   cpc, cuser, lastEventId, backlog, clientVars, analyticsVars, authVars>>

\* views.py 373-374, sse.py 51-58: the client goes away, or streaming fails,
\* while stream() is suspended at a yield of the backfill or in the live
\* loop; the finally clause unsubscribes.
Disconnect(n) ==
    /\ cpc[n] \in {"backfill", "live"}
    /\ subs' = Unsubscribed(n)
    /\ subEntries' = EntriesAfter(n)
    /\ cpc' = [cpc EXCEPT ![n] = "ended"]
    /\ UNCHANGED <<ingestVars, publishVars, cuser, lastEventId, emitted, backlog, clientVars, analyticsVars, authVars>>

\* views.py 348-379: the response is dropped before stream() was ever
\* iterated (the client is gone when the handler returns).  The body of a
\* generator that never started does not run, its finally clause included.
Abandon(n) ==
    /\ cpc[n] = "open"
    /\ cpc' = [cpc EXCEPT ![n] = "ended"]
    /\ UNCHANGED <<ingestVars, brokerVars, cuser, lastEventId, emitted, backlog, clientVars, analyticsVars, authVars>>

\* ------------------------------------------------------------------ notification reader

\* views.py 265, 264
NOTIF_MAX_LIMIT == 200
NOTIF_DEFAULT_LIMIT == 100

Min(a, b) == IF a < b THEN a ELSE b
Max(a, b) == IF a > b THEN a ELSE b

\* views.py 219-220 / 288-289: `limit or DEFAULT`, then max(1, min(limit, MAX)).
\* A limit of 0 stands for the absent query parameter.
ClampLimit(limit, default, most) == Max(1, Min(IF limit = 0 THEN default ELSE limit, most))

\* Mutant: next_since taken from the first item of the page.
NextSinceFirst(items, s) == IF items # <<>> THEN items[1].id ELSE s

\* views.py 298: notifications[-1].id if notifications else since
NextSince(items, s) == IF items # <<>> THEN items[Len(items)].id ELSE s

\* views.py 286-305: NotificationsView.get
ReadNotifications(user_id, s, limit) ==
    LET items == NotifsSince(user_id, s, ClampLimit(limit, NOTIF_DEFAULT_LIMIT, NOTIF_MAX_LIMIT))
    IN [items |-> items, next_since |-> NextSince(items, s)]

\* GET /api/notifications?since=s&limit=... of the polling client.
PollFrom(s) ==
    \E limit \in 0..MaxLimit :
        LET r == ReadNotifications(pollUser, s, limit)
        IN /\ pollResp' = [since |-> s, limit |-> limit, items |-> r.items,
                           next_since |-> r.next_since]
           /\ got' = got \o [i \in 1..Len(r.items) |-> r.items[i].id]
           /\ since' = r.next_since
           /\ UNCHANGED <<ingestVars, brokerVars, connVars, pollUser, feedVars, analyticsVars, authVars>>

\* The polling client: GET /api/notifications?since=<last next_since>&limit=...
Poll == PollFrom(since)

\* ------------------------------------------------------------------ cursor codec

\* Text is a sequence of characters.  The printable ASCII characters in
\* code order, from the space (32) to the tilde (126); the grave accent (96)
\* is written out.
Printable ==
    <<" ", "!", "\"", "#", "$", "%", "&", "'", "(", ")", "*", "+", ",", "-", ".", "/", "0",
      "1", "2", "3", "4", "5", "6", "7", "8", "9", ":", ";", "<", "=", ">", "?", "@", "A", "B",
      "C", "D", "E", "F", "G", "H", "I", "J", "K", "L", "M", "N", "O", "P", "Q", "R", "S", "T",
      "U", "V", "W", "X", "Y", "Z", "[", "\\", "]", "^", "_", "backtick", "a", "b", "c", "d", "e",
      "f", "g", "h", "i", "j", "k", "l", "m", "n", "o", "p", "q", "r", "s", "t", "u", "v", "w",
      "x", "y", "z", "{", "|", "}", "~">>

\* str.encode("utf-8") / bytes.decode("utf-8") of such text: one byte per character.
Codes ==
    [c \in {Printable[i] : i \in 1..Len(Printable)} |->
        31 + (CHOOSE i \in 1..Len(Printable) : Printable[i] = c)]

Code(c) == Codes[c]

Bytes(text) == [i \in 1..Len(text) |-> Code(text[i])]

IsText(bytes) == \A i \in 1..Len(bytes) : bytes[i] \in 32..126

TextOf(bytes) == [i \in 1..Len(bytes) |-> Printable[bytes[i] - 31]]

\* cursors.py 23: the alphabet of base64.urlsafe_b64encode: - and _ for the
\* values 62 and 63.
UrlSafeAlphabet ==
    <<"A", "B", "C", "D", "E", "F", "G", "H", "I", "J", "K", "L", "M", "N", "O", "P", "Q", "R",
      "S", "T", "U", "V", "W", "X", "Y", "Z", "a", "b", "c", "d", "e", "f", "g", "h", "i", "j",
      "k", "l", "m", "n", "o", "p", "q", "r", "s", "t", "u", "v", "w", "x", "y", "z", "0", "1",
      "2", "3", "4", "5", "6", "7", "8", "9", "-", "_">>

\* cursors.py 23: base64.urlsafe_b64encode(raw): three bytes give four
\* characters, the last group is filled up with "=".
B64Encode(bytes) ==
    LET n == Len(bytes)
        At(i) == IF i <= n THEN bytes[i] ELSE 0
        Quad(g) ==
            LET v == At(3 * g - 2) * 65536 + At(3 * g - 1) * 256 + At(3 * g)
            IN << UrlSafeAlphabet[(v \div 262144) + 1],
                  UrlSafeAlphabet[((v \div 4096) % 64) + 1],
                  IF 3 * g - 1 <= n THEN UrlSafeAlphabet[((v \div 64) % 64) + 1] ELSE "=",
                  IF 3 * g <= n THEN UrlSafeAlphabet[(v % 64) + 1] ELSE "=" >>
        F[g \in 0..((n + 2) \div 3)] == IF g = 0 THEN <<>> ELSE F[g - 1] \o Quad(g)
    IN F[(n + 2) \div 3]

\* Mutant: the padding stays on the token.
RStripKeepsPad(text) == text

\* cursors.py 23: .rstrip("=")
RECURSIVE RStrip(_)
RStrip(text) ==
    IF text # <<>> /\ text[Len(text)] = "=" THEN RStrip(SubSeq(text, 1, Len(text) - 1))
    ELSE text

\* cursors.py 30: cursor + "=" * (-len(cursor) % 4)
Padded(text) == text \o [i \in 1..((4 - (Len(text) % 4)) % 4) |-> "="]

\* The value of each character of the alphabet.
B64Values ==
    [c \in {UrlSafeAlphabet[i] : i \in 1..64} |-> (CHOOSE i \in 1..64 : UrlSafeAlphabet[i] = c) - 1]

B64Index(c) == B64Values[c]

\* cursors.py 32: base64.urlsafe_b64decode(padded): characters outside the
\* alphabet are skipped; the data characters must come in groups of four,
\* or of two or three followed by enough "="; ok is FALSE for binascii.Error.
B64Decode(text) ==
    LET data == SelectSeq(text, LAMBDA c : c \in DOMAIN B64Values)
        pads == Len(SelectSeq(text, LAMBDA c : c = "="))
        d == Len(data)
        r == d % 4
        ok == r = 0 \/ (r = 2 /\ pads >= 2) \/ (r = 3 /\ pads >= 1)
        n == (d \div 4) * 3 + (IF r = 2 THEN 1 ELSE IF r = 3 THEN 2 ELSE 0)
        S(q) == B64Index(data[q])
        Byte(i) ==
            LET q == ((8 * (i - 1)) \div 6) + 1
                off == (8 * (i - 1)) % 6
            IN IF off = 0 THEN S(q) * 4 + (S(q + 1) \div 16)
               ELSE IF off = 2 THEN (S(q) % 16) * 16 + (S(q + 1) \div 4)
               ELSE (S(q) % 4) * 64 + S(q + 1)
    IN IF ok THEN [ok |-> TRUE, bytes |-> [i \in 1..n |-> Byte(i)]]
       ELSE [ok |-> FALSE, bytes |-> <<>>]

\* The decimal digits of a number, str(n).
Digit(d) == Printable[d + 17]

RECURSIVE Digits(_)
Digits(n) ==
    IF n < 0 THEN <<"-">> \o Digits(0 - n)
    ELSE IF n < 10 THEN <<Digit(n)>>
    ELSE Digits(n \div 10) \o <<Digit(n % 10)>>

\* A number written with `width` digits, zeros in front.
RECURSIVE ZeroPadded(_, _)
ZeroPadded(n, width) ==
    IF width = 0 THEN <<>> ELSE ZeroPadded(n \div 10, width - 1) \o <<Digit(n % 10)>>

IsDigit(c) == \E d \in 0..9 : Digit(d) = c

DigitValue(c) == CHOOSE d \in 0..9 : Digit(d) = c

\* int() of a string of digits.
RECURSIVE Number(_)
Number(text) ==
    IF text = <<>> THEN 0
    ELSE Number(SubSeq(text, 1, Len(text) - 1)) * 10 + DigitValue(text[Len(text)])

IsNumber(text) == text # <<>> /\ \A i \in 1..Len(text) : IsDigit(text[i])

\* Timestamps are counted in ticks, TicksPerSecond of them in a second (the
\* microseconds of a datetime).
TicksPerSecond == 2

\* Number of FeedItem rows of the stores the feed client reads.
MaxFeedItems == 3

\* Largest created_at of those rows.
MaxTime == 2

DatePrefix == <<"1", "9", "7", "0", "-", "0", "1", "-", "0", "1", "T", "0", "0", ":", "0", "0", ":">>

\* cursors.py 19: datetime.isoformat(): YYYY-MM-DDTHH:MM:SS and, unless it
\* is zero, a point and the six digits of the fraction.
IsoFormat(t) ==
    DatePrefix \o ZeroPadded(t \div TicksPerSecond, 2)
        \o (IF t % TicksPerSecond = 0 THEN <<>>
            ELSE <<".">> \o ZeroPadded(t % TicksPerSecond, 6))

\* cursors.py 42: django.utils.dateparse.parse_datetime(text): the time in
\* ticks; -1 for None (not the format); -2 for the ValueError it raises on
\* text that has the format but names no datetime (second 60 and above).
ParseDatetime(text) ==
    LET n == Len(text)
        shaped ==
            /\ n \in {Len(DatePrefix) + 2, Len(DatePrefix) + 9}
            /\ SubSeq(text, 1, Len(DatePrefix)) = DatePrefix
            /\ IsNumber(SubSeq(text, Len(DatePrefix) + 1, Len(DatePrefix) + 2))
            /\ n > Len(DatePrefix) + 2 =>
                  /\ text[Len(DatePrefix) + 3] = "."
                  /\ IsNumber(SubSeq(text, Len(DatePrefix) + 4, n))
        second == Number(SubSeq(text, Len(DatePrefix) + 1, Len(DatePrefix) + 2))
        fraction == IF n > Len(DatePrefix) + 2
                    THEN Number(SubSeq(text, Len(DatePrefix) + 4, n)) ELSE 0
    IN IF ~shaped THEN -1
       ELSE IF second >= 60 THEN -2
       ELSE second * TicksPerSecond + fraction

\* JSON values.  A scalar has a type, a number and a text; the value at the
\* top is an object with the two members of a cursor payload (JAbsent: the
\* member is not there), or a scalar.
JAbsent == [type |-> "absent", n |-> 0, s |-> <<>>]
JNull == [type |-> "null", n |-> 0, s |-> <<>>]
JList == [type |-> "list", n |-> 0, s |-> <<>>]
JInt(n) == [type |-> "int", n |-> n, s |-> <<>>]
JFloat(n, fraction) == [type |-> "float", n |-> n, s |-> fraction]
JStr(text) == [type |-> "str", n |-> 0, s |-> text]

JObject(created_at, feed_item_id) ==
    [type |-> "object", n |-> 0, s |-> <<>>,
     created_at |-> created_at, feed_item_id |-> feed_item_id]

JTop(x) ==
    [type |-> x.type, n |-> x.n, s |-> x.s, created_at |-> JAbsent, feed_item_id |-> JAbsent]

JsonError == JTop([type |-> "error", n |-> 0, s |-> <<>>])

CreatedAtName == <<"c", "r", "e", "a", "t", "e", "d", "_", "a", "t">>
FeedItemIdName == <<"f", "e", "e", "d", "_", "i", "t", "e", "m", "_", "i", "d">>

DumpScalar(x) ==
    CASE x.type = "int" -> Digits(x.n)
      [] x.type = "float" -> Digits(x.n) \o <<".">> \o x.s
      [] x.type = "str" -> <<"\"">> \o x.s \o <<"\"">>
      [] x.type = "null" -> <<"n", "u", "l", "l">>
      [] x.type = "list" -> <<"[", "]">>

Member(name, x) == <<"\"">> \o name \o <<"\"", ":">> \o DumpScalar(x)

\* cursors.py 22: json.dumps(payload, separators=(",", ":")): no blanks,
\* the members in the order of the dict.
JsonDumps(v) ==
    IF v.type # "object" THEN DumpScalar(v)
    ELSE <<"{">>
         \o (IF v.created_at # JAbsent THEN Member(CreatedAtName, v.created_at) ELSE <<>>)
         \o (IF v.created_at # JAbsent /\ v.feed_item_id # JAbsent THEN <<",">> ELSE <<>>)
         \o (IF v.feed_item_id # JAbsent THEN Member(FeedItemIdName, v.feed_item_id) ELSE <<>>)
         \o <<"}">>

\* The timestamps and FeedItem ids cursors are made of: whole seconds and
\* fractions, ids of one and of two digits.
CodecTimes == 0..(MaxTime + TicksPerSecond)
CodecIds == (1..(MaxFeedItems + Cardinality(Users) * MaxCalls)) \cup {MaxFeedItems + 10}

\* The JSON texts json.loads knows: every cursor payload, and payloads and
\* other values a client may have put in a token of its own making.
CreatedAtValues ==
    {JAbsent, JNull, JInt(1), JStr(<<"x">>), JStr(DatePrefix \o <<"6", "1">>)}
        \cup {JStr(IsoFormat(t)) : t \in CodecTimes}

FeedItemIdValues ==
    {JAbsent, JNull, JStr(<<"x">>), JStr(<<"2">>), JFloat(1, <<"5">>), JInt(0), JInt(-1)}
        \cup {JInt(i) : i \in CodecIds}

JsonValues ==
    {JObject(c, f) : c \in CreatedAtValues, f \in FeedItemIdValues}
        \cup {JTop(JList), JTop(JInt(5)), JTop(JNull), JTop(JStr(<<"x">>))}

\* cursors.py 33: json.loads(text): the value the text is the JSON of;
\* JsonError for JSONDecodeError.
JsonTexts ==
    [text \in {JsonDumps(v) : v \in JsonValues} |->
        CHOOSE v \in JsonValues : JsonDumps(v) = text]

JsonLoads(text) == IF text \in DOMAIN JsonTexts THEN JsonTexts[text] ELSE JsonError

\* cursors.py 17-23: encode_feed_cursor(created_at, feed_item_id)
EncodeFeedCursor(created_at, feed_item_id) ==
    LET payload == JObject(JStr(IsoFormat(created_at)), JInt(feed_item_id))
        raw == Bytes(JsonDumps(payload))
    IN RStrip(B64Encode(raw))

\* cursors.py 46-49: int(feed_item_id_raw): an int as it is, a float cut
\* off, a string of digits read; 0 stands for the TypeError or ValueError
\* that is caught (0 is refused by line 51 as well).
IntOf(x) ==
    CASE x.type \in {"int", "float"} -> x.n
      [] x.type = "str" /\ IsNumber(x.s) -> Number(x.s)
      [] OTHER -> 0

\* cursors.py 37-54: decode_feed_cursor after json.loads: payload.get() of
\* the two members, parse_datetime, int().  payload.get() exists on a dict
\* only, parse_datetime takes a string only: both are outside the try block.
DecodePayload(payload) ==
    IF payload.type # "object" THEN Raised
    ELSE IF payload.created_at.type \in {"absent", "null"}
            \/ payload.feed_item_id.type \in {"absent", "null"} THEN NoCursor
    ELSE IF payload.created_at.type # "str" THEN Raised
    ELSE LET dt == ParseDatetime(payload.created_at.s)
             fid == IntOf(payload.feed_item_id)
         IN IF dt = -2 THEN Raised
            ELSE IF dt = -1 THEN NoCursor
            ELSE IF fid <= 0 THEN NoCursor
            ELSE [created_at |-> dt, feed_item_id |-> fid]

\* cursors.py 26-54: decode_feed_cursor; NoCursor stands for None.
DecodeFeedCursor(token) ==
    IF token = NoToken THEN NoCursor
    ELSE LET raw == B64Decode(Padded(token))
         IN IF ~raw.ok THEN NoCursor
            ELSE IF ~IsText(raw.bytes) THEN NoCursor
            ELSE LET payload == JsonLoads(TextOf(raw.bytes))
                 IN IF payload = JsonError THEN NoCursor
                    ELSE DecodePayload(payload)

\* The tokens of the cursors of CodecTimes x CodecIds, worked out once; the
\* token of any other cursor is worked out when it comes.
EncodedCursors == [p \in CodecTimes \X CodecIds |-> EncodeFeedCursor(p[1], p[2])]

CursorToken(created_at, feed_item_id) ==
    IF <<created_at, feed_item_id>> \in DOMAIN EncodedCursors
    THEN EncodedCursors[<<created_at, feed_item_id>>]
    ELSE EncodeFeedCursor(created_at, feed_item_id)

\* ------------------------------------------------------------------ feed reader

\* views.py 198, 197
FEED_MAX_LIMIT == 200
FEED_DEFAULT_LIMIT == 50

\* views.py 230: order_by("-created_at", "-id")
FeedBefore(a, b) ==
    a.created_at > b.created_at \/ (a.created_at = b.created_at /\ a.id > b.id)

\* Mutant: the tie-break branch keeps the cursor's own row.
FeedSeekInclusive(r, c) ==
    r.created_at < c.created_at \/ (r.created_at = c.created_at /\ r.id <= c.feed_item_id)

\* Mutant: the seek predicate without its tie-break branch.
FeedSeekNoTie(r, c) == r.created_at < c.created_at

\* views.py 234-237: created_at < c.created_at OR (created_at = c.created_at AND id < c.id)
FeedSeek(r, c) ==
    r.created_at < c.created_at \/ (r.created_at = c.created_at /\ r.id < c.feed_item_id)

RECURSIVE FeedOrdered(_, _)
\* views.py 227-239: the rows in (created_at DESC, id DESC) order, sliced [:limit].
FeedOrdered(rows, limit) ==
    IF limit = 0 \/ rows = {} THEN <<>>
    ELSE LET first == CHOOSE r \in rows : \A o \in rows \ {r} : FeedBefore(r, o)
         IN <<first>> \o FeedOrdered(rows \ {first}, limit - 1)

\* Mutant: a cursor for every non-empty page.
HasNextPageNonEmpty(n, limit) == n > 0

\* views.py 243: len(feed_items) == limit
HasNextPage(n, limit) == n = limit

\* Mutant: the query without its user filter.
FeedOfAnyone(user_id) == feedItems

\* views.py 228: FeedItem.objects.filter(user_id=user_id)
FeedOf(user_id) == {r \in feedItems : r.user_id = user_id}

\* views.py 219-253: FeedView.get after the header and user_id checks; c is
\* what decode_feed_cursor returned for cursor_raw (line 223).
ReadFeedWith(user_id, cursor_raw, c, limit) ==
    LET lim == ClampLimit(limit, FEED_DEFAULT_LIMIT, FEED_MAX_LIMIT)
        mine == FeedOf(user_id)
        rows == IF c = NoCursor THEN mine ELSE {r \in mine : FeedSeek(r, c)}
        page == FeedOrdered(rows, lim)
    IN IF c = Raised
       THEN \* the exception leaves the view: 500 Internal Server Error
            [status |-> 500, page |-> <<>>, items |-> <<>>, next_cursor |-> NoToken]
       ELSE IF cursor_raw # NoToken /\ c = NoCursor
       THEN [status |-> 400, page |-> <<>>, items |-> <<>>, next_cursor |-> NoToken]
       ELSE [status |-> 200,
             page |-> page,
             items |-> [i \in 1..Len(page) |-> page[i].event_id],
             next_cursor |-> IF HasNextPage(Len(page), lim)
                             THEN CursorToken(page[Len(page)].created_at,
                                              page[Len(page)].id)
                             ELSE NoToken]

ReadFeed(user_id, cursor_raw, limit) ==
    ReadFeedWith(user_id, cursor_raw, DecodeFeedCursor(cursor_raw), limit)

\* The feed client: GET /api/feed without a cursor, then with the returned
\* next_cursor until it is null.
FeedRead ==
    /\ ~feedDone
    /\ \E c \in {DecodeFeedCursor(cursor)}, limit \in 0..MaxLimit :
          LET r == ReadFeedWith(feedUser, cursor, c, limit)
          IN /\ feedResp' = [cursor |-> cursor, limit |-> limit, status |-> r.status,
                             page |-> r.page, items |-> r.items,
                             next_cursor |-> r.next_cursor]
             /\ seen' = seen \o r.items
             /\ cursor' = r.next_cursor
             /\ feedDone' = (r.next_cursor = NoToken)
    /\ atStart' = IF feedResp = NoFeedResp
                  THEN {row \in feedItems : row.user_id = feedUser}
                  ELSE atStart
    /\ UNCHANGED <<ingestVars, brokerVars, connVars, pollVars, feedUser, codecVars, analyticsVars, authVars>>

\* A store after MaxFeedItems single-target ingests: row i belongs to any user
\* and carries any created_at, so rows tie on created_at and ids and
\* timestamps are ordered independently.
FeedTables ==
    { { [id |-> i, user_id |-> f[i][1], event_id |-> i, created_at |-> f[i][2]] :
          i \in 1..MaxFeedItems } :
      f \in [1..MaxFeedItems -> Users \X (1..MaxTime)] }

InitFeed ==
    /\ \E table \in FeedTables :
          /\ feedItems = table
          /\ notifs = table
          /\ events = {[id |-> r.id, created_at |-> r.created_at] : r \in table}
    /\ idemKeys = {}
    /\ seqEvent = MaxFeedItems
    /\ seqFeed = MaxFeedItems
    /\ seqNotif = MaxFeedItems
    /\ lockHolder = [k \in Keys |-> 0]
    /\ InitCalls /\ InitBroker
    /\ pollUser = 1 /\ InitPollClient
    /\ feedUser \in Users /\ InitFeedClient
    /\ InitAnalytics

\* The cursor codec on its own: a token comes out of encode_feed_cursor or
\* out of a client's hands, decode_feed_cursor reads it, and GET /api/feed
\* is called with it once.

codecFrame == <<ingestVars, brokerVars, connVars, pollVars, analyticsVars, authVars>>

\* cursors.py 17-23: encode_feed_cursor(created_at, feed_item_id)
CodecEncode ==
    /\ codecToken = NoToken
    /\ \E t \in CodecTimes, i \in CodecIds :
          /\ codecIn' = [created_at |-> t, feed_item_id |-> i]
          /\ codecToken' = EncodeFeedCursor(t, i)
    /\ UNCHANGED <<codecOut, feedUser, cursor, seen, feedDone, feedResp, atStart, codecFrame>>

\* Tokens of a client's own making: base64url of any JSON text, of text
\* that is no JSON, one character that is no base64, and characters
\* outside the alphabet.
ClientTokens ==
    {RStrip(B64Encode(Bytes(JsonDumps(v)))) : v \in JsonValues}
        \cup {RStrip(B64Encode(Bytes(<<"{">>))), <<"A">>, <<"!", "!">>}

\* The client makes a token of its own.
CodecForge ==
    /\ codecToken = NoToken
    /\ codecToken' \in ClientTokens
    /\ UNCHANGED <<codecIn, codecOut, feedUser, cursor, seen, feedDone, feedResp, atStart, codecFrame>>

\* cursors.py 26-54: decode_feed_cursor(token)
CodecDecode ==
    /\ codecToken # NoToken
    /\ codecOut = NotDecoded
    /\ codecOut' = DecodeFeedCursor(codecToken)
    /\ UNCHANGED <<codecIn, codecToken, feedUser, cursor, seen, feedDone, feedResp, atStart, codecFrame>>

\* views.py 219-253: one GET /api/feed?cursor=<the token>, and the client stops.
CodecRead ==
    /\ codecOut # NotDecoded
    /\ ~feedDone
    /\ \E c \in {DecodeFeedCursor(codecToken)}, limit \in 0..MaxLimit :
          LET r == ReadFeedWith(feedUser, codecToken, c, limit)
          IN /\ feedResp' = [cursor |-> codecToken, limit |-> limit, status |-> r.status,
                             page |-> r.page, items |-> r.items,
                             next_cursor |-> r.next_cursor]
             /\ seen' = seen \o r.items
             /\ cursor' = r.next_cursor
             /\ feedDone' = TRUE
    /\ UNCHANGED <<codecVars, feedUser, atStart, codecFrame>>

\* The store the codec's tokens are read against: MaxFeedItems rows of user 1.
CodecTable ==
    { [id |-> i, user_id |-> 1, event_id |-> i, created_at |-> ((i - 1) % MaxTime) + 1] :
        i \in 1..MaxFeedItems }

InitCodecStore ==
    /\ feedItems = CodecTable
    /\ notifs = CodecTable
    /\ events = {[id |-> r.id, created_at |-> r.created_at] : r \in CodecTable}
    /\ idemKeys = {}
    /\ seqEvent = MaxFeedItems
    /\ seqFeed = MaxFeedItems
    /\ seqNotif = MaxFeedItems
    /\ lockHolder = [k \in Keys |-> 0]
    /\ InitCalls /\ InitBroker
    /\ pollUser = 1 /\ InitPollClient
    /\ feedUser = 1 /\ InitFeedClient
    /\ InitAnalytics

\* ------------------------------------------------------------------ sliding window

\* analytics.py 33
NumBuckets == NumBucketsOf(window_seconds, bucket_size_seconds)

\* analytics.py 39-40: int(ts // bucket_size_seconds)
CurrentBucketId(ts) == ts \div bucket_size_seconds

TotalKeys(tot) == {tot[i].key : i \in 1..Len(tot)}

\* Counter lookup: a missing key counts 0.
CountOf(tot, key) ==
    IF key \in TotalKeys(tot)
    THEN (CHOOSE e \in Range(tot) : e.key = key).count
    ELSE 0

\* Counter: c[key] += d; a key that is not in the dict is inserted last.
Increment(tot, key, d) ==
    IF key \in TotalKeys(tot)
    THEN [i \in 1..Len(tot) |->
            IF tot[i].key = key THEN [key |-> key, count |-> tot[i].count + d] ELSE tot[i]]
    ELSE Append(tot, [key |-> key, count |-> d])

\* Counter.subtract(counts): every key that counts holds, whatever the order
\* (every such key is in the totals already).
RECURSIVE SubtractKeys(_, _, _)
SubtractKeys(tot, counts, keys) ==
    IF keys = {} THEN tot
    ELSE LET key == CHOOSE x \in keys : TRUE
         IN SubtractKeys(Increment(tot, key, 0 - counts[key]), counts, keys \ {key})

\* Mutant: a bucket that is cleared keeps its share of the totals.
SubtractNothing(tot, counts) == tot

SubtractCounts(tot, counts) ==
    SubtractKeys(tot, counts, {key \in DOMAIN counts : counts[key] > 0})

\* Mutant: zero entries stay in the totals.
PurgeNothing(tot) == tot

\* analytics.py 58-61: delete the entries of the totals that are <= 0.
Purge(tot) == SelectSeq(tot, LAMBDA e : e.count > 0)

\* Mutant: a bucket is kept for one bucket length more.
MinValidLate(now_ts) == CurrentBucketId(now_ts) - NumBuckets

\* analytics.py 47-48: the oldest bucket id still inside the window.
MinValid(now_ts) == CurrentBucketId(now_ts) - (NumBuckets - 1)

\* analytics.py 49-56: the loop over the ring, slot by slot.
RECURSIVE ExpireSlots(_, _, _, _)
ExpireSlots(bs, tot, min_valid, i) ==
    IF i >= NumBuckets THEN [buckets |-> bs, total |-> tot]
    ELSE IF bs[i].bucket_id # NoBucket /\ bs[i].bucket_id < min_valid
         THEN ExpireSlots([bs EXCEPT ![i] = EmptyBucket],
                          SubtractCounts(tot, bs[i].counts), min_valid, i + 1)
         ELSE ExpireSlots(bs, tot, min_valid, i + 1)

\* analytics.py 42-61: _expire_old(now_ts)
ExpireOld(bs, tot, now_ts) ==
    LET e == ExpireSlots(bs, tot, MinValid(now_ts), 0)
    IN [buckets |-> e.buckets, total |-> Purge(e.total)]

\* Mutant: only the empty key is turned away, any n is counted.
IgnoresOnlyEmptyKey(key, n) == key = ""

\* analytics.py 64: if not key or n <= 0
Ignores(key, n) == key = "" \/ n <= 0

\* analytics.py 63-81: add(key, ts, n)
SlidingAddAt(key, ts, n) ==
    IF Ignores(key, n)
    THEN \* analytics.py 65: return
         /\ ignored' = [key |-> key, ts |-> ts, n |-> n]
         /\ topResult' = NoTop
         /\ UNCHANGED <<ingestVars, brokerVars, connVars, clientVars, authVars,
                        window_seconds, bucket_size_seconds, buckets, total, clock, adds,
                        registryVars, threadVars>>
    ELSE /\ Len(adds) < MaxAdds
         /\ LET bucket_id == CurrentBucketId(ts)
                idx == bucket_id % NumBuckets
                e == ExpireOld(buckets, total, ts)
                reuse == e.buckets[idx].bucket_id # bucket_id
                tot == IF reuse THEN SubtractCounts(e.total, e.buckets[idx].counts) ELSE e.total
                counts == IF reuse THEN EmptyBucket.counts ELSE e.buckets[idx].counts
            IN /\ buckets' = [e.buckets EXCEPT ![idx] =
                      [bucket_id |-> bucket_id, counts |-> [counts EXCEPT ![key] = @ + n]]]
               /\ total' = Increment(tot, key, n)
               /\ adds' = Append(adds, [key |-> key, ts |-> ts, n |-> n,
                                         created |-> key \notin TotalKeys(tot)])
         /\ topResult' = NoTop
         /\ ignored' = NoAdd
         /\ UNCHANGED <<ingestVars, brokerVars, connVars, clientVars, authVars,
                        window_seconds, bucket_size_seconds, clock, registryVars, threadVars>>

\* add(key, n) called at the time of the clock.
SlidingAdd(key, n) == SlidingAddAt(key, clock, n)

\* Mutant: an entry goes in front of the entries with the same count.
InsertDescBeforeTies(sorted, e) ==
    LET before == SelectSeq(sorted, LAMBDA x : x.count > e.count)
        after == SelectSeq(sorted, LAMBDA x : x.count <= e.count)
    IN before \o <<e>> \o after

\* One step of a stable sort by count, descending: the entry goes behind
\* every entry that counts at least as much.
InsertDesc(sorted, e) ==
    LET before == SelectSeq(sorted, LAMBDA x : x.count >= e.count)
        after == SelectSeq(sorted, LAMBDA x : x.count < e.count)
    IN before \o <<e>> \o after

RECURSIVE SortDesc(_)
SortDesc(tot) ==
    IF tot = <<>> THEN <<>>
    ELSE InsertDesc(SortDesc(SubSeq(tot, 1, Len(tot) - 1)), tot[Len(tot)])

\* Counter.most_common(k): the k largest entries, ties in dict order.
MostCommon(tot, k) ==
    LET sorted == SortDesc(tot)
    IN SubSeq(sorted, 1, IF k < Len(sorted) THEN k ELSE Len(sorted))

\* analytics.py 83-87: top(k, now_ts)
SlidingTopAt(k, now_ts) ==
    /\ LET e == ExpireOld(buckets, total, now_ts)
       IN /\ buckets' = e.buckets
          /\ total' = e.total
          /\ topResult' = [now |-> now_ts, k |-> k, items |-> MostCommon(e.total, k)]
    /\ ignored' = NoAdd
    /\ UNCHANGED <<ingestVars, brokerVars, connVars, clientVars, authVars,
                   window_seconds, bucket_size_seconds, clock, adds, registryVars, threadVars>>

\* top(k) called at the time of the clock.
SlidingTop(k) == SlidingTopAt(k, clock)

\* The times at which calls are made: for the one-minute window the times
\* of the repository's test (tests.py 76-81), for the small windows every
\* second until two bucket lengths past the window.
CallTimes ==
    IF window_seconds = 60 THEN {100, 101, 110}
    ELSE {t \in StartTime..(StartTime + MaxHorizon) :
             t <= StartTime + window_seconds + 2 * bucket_size_seconds}

\* Time passes until the next call time.
Tick ==
    /\ \E t \in CallTimes :
          /\ t > clock
          /\ \A u \in CallTimes : u > clock => t <= u
          /\ clock' = t
    /\ topResult' = NoTop
    /\ ignored' = NoAdd
    /\ UNCHANGED <<ingestVars, brokerVars, connVars, clientVars, authVars,
                   window_seconds, bucket_size_seconds, buckets, total, adds, registryVars,
                   threadVars>>

\* ------------------------------------------------------------------ analytics registry

\* Number of record() calls on the registry in one behaviour.
MaxRecords == 2

\* The counts of a bucket of the registry: a Counter over the recorded keys.
NoCounts == [key \in ObjectIds \cup Verbs |-> 0]

\* analytics.py 42-61: _expire_old(now_ts) on counter c.  Every slot whose
\* bucket is older than min_valid gives its counts back and is cleared.
RECURSIVE ExpireStale(_, _, _)
ExpireStale(c, tot, stale) ==
    IF stale = {} THEN tot
    ELSE LET i == CHOOSE x \in stale : \A y \in stale : x <= y
         IN ExpireStale(c, SubtractCounts(tot, c.buckets[i].counts), stale \ {i})

CounterExpire(c, now_ts) ==
    LET num_buckets == NumBucketsOf(c.window_seconds, c.bucket_size_seconds)
        min_valid == (now_ts \div c.bucket_size_seconds) - (num_buckets - 1)
        stale == {i \in DOMAIN c.buckets : c.buckets[i].bucket_id < min_valid}
    IN [c EXCEPT !.buckets = [i \in DOMAIN c.buckets \ stale |-> c.buckets[i]],
                 !.total = Purge(ExpireStale(c, c.total, stale))]

\* analytics.py 63-81: add(key, ts, n) on counter c.
CounterAdd(c, key, ts, n) ==
    IF Ignores(key, n) THEN c
    ELSE LET num_buckets == NumBucketsOf(c.window_seconds, c.bucket_size_seconds)
             bucket_id == ts \div c.bucket_size_seconds
             idx == bucket_id % num_buckets
             e == CounterExpire(c, ts)
             held == idx \in DOMAIN e.buckets
             reuse == IF held THEN e.buckets[idx].bucket_id # bucket_id ELSE TRUE
             tot == IF held /\ reuse THEN SubtractCounts(e.total, e.buckets[idx].counts)
                    ELSE e.total
             counts == IF reuse THEN NoCounts ELSE e.buckets[idx].counts
         IN [e EXCEPT !.buckets = [i \in DOMAIN e.buckets \cup {idx} |->
                                      IF i = idx
                                      THEN [bucket_id |-> bucket_id,
                                            counts |-> [counts EXCEPT ![key] = @ + n]]
                                      ELSE e.buckets[i]],
                      !.total = Increment(tot, key, n)]

\* analytics.py 83-87: top(k, now_ts) on counter c: the counter after the
\* expiry pass and the list returned.
CounterTop(c, k, now_ts) ==
    LET e == CounterExpire(c, now_ts)
    IN [counter |-> e, items |-> MostCommon(e.total, k)]

\* Mutant: every counter is fed the object id.
RecordKeyObjectOnly(by, object_id, verb) == object_id

\* analytics.py 110-113: what record() hands to the counters of a dimension.
RecordKey(by, object_id, verb) == IF by = "object_id" THEN object_id ELSE verb

\* analytics.py 109-113: record(object_id, verb, ts=clock)
Record(object_id, verb) ==
    /\ Len(records) < MaxRecords
    /\ reg' = [d \in Dimensions |->
                  [w \in Windows |->
                      CounterAdd(reg[d][w], RecordKey(d, object_id, verb), clock, 1)]]
    /\ records' = Append(records, [object_id |-> object_id, verb |-> verb, ts |-> clock])
    /\ regTop' = NoRegTop
    /\ UNCHANGED <<ingestVars, brokerVars, connVars, clientVars, authVars,
                   window_seconds, bucket_size_seconds, buckets, total, clock, adds,
                   topResult, ignored, threadVars>>

\* The (object_id, verb) of the events recorded.
RecordInputs == {<<"a", "like">>, <<"b", "like">>}

\* The (window, by) arguments callers pass to top(): every counter of the
\* registry, an unknown window, an unknown by, and both.
TopArgs ==
    (Windows \X Dimensions) \cup {<<"2m", "object_id">>, <<"1m", "actor_id">>, <<"2m", "actor_id">>}

\* analytics.py 116-124: the ValueError top() raises ("": none).  The by
\* argument is looked at first.
TopError(window, by) ==
    IF by \notin Dimensions THEN "by"
    ELSE IF window \notin Windows THEN "window"
    ELSE ""

\* analytics.py 115-125: top(window, by, k), at time clock.
RegistryTop(window, by, k) ==
    /\ LET error == TopError(window, by)
           w == IF window \in Windows THEN window ELSE "1m"
       IN IF error # ""
          THEN /\ regTop' = [window |-> window, by |-> by, k |-> k, now |-> clock,
                             error |-> error, items |-> <<>>]
               /\ UNCHANGED reg
          ELSE LET t == CounterTop(reg[by][w], k, clock)
               IN /\ reg' = [reg EXCEPT ![by][w] = t.counter]
                  /\ regTop' = [window |-> window, by |-> by, k |-> k, now |-> clock,
                                error |-> "", items |-> t.items]
    /\ UNCHANGED <<ingestVars, brokerVars, connVars, clientVars, authVars,
                   window_seconds, bucket_size_seconds, buckets, total, clock, adds,
                   topResult, ignored, records, threadVars>>

\* The times at which the registry is called: two inside the first minute,
\* one when the first has left the one-minute window and one when it has
\* left the one-hour window (and the second the five-minute window).
RegistryTimes == {StartTime, StartTime + 30, StartTime + 65, StartTime + 3605}

\* Time passes until the next call on the registry.
RegistryTick ==
    /\ \E t \in RegistryTimes :
          /\ t > clock
          /\ \A u \in RegistryTimes : u > clock => t <= u
          /\ clock' = t
    /\ regTop' = NoRegTop
    /\ UNCHANGED <<ingestVars, brokerVars, connVars, clientVars, authVars,
                   window_seconds, bucket_size_seconds, buckets, total, adds,
                   topResult, ignored, reg, records, threadVars>>

\* ------------------------------------------------------------------ threads on one counter

\* Number of add() and top() calls the threads make in one behaviour.
MaxThreadCalls == 3

\* The (key, n) of the add() calls of the threads.
ThreadAdds == {<<"a", 1>>, <<"b", 1>>, <<"", 1>>}

\* The times at which threads read the clock: the second one falls into
\* the next bucket, the third one into the ring slot of the first.
ThreadTimes == {StartTime, StartTime + 2, StartTime + 4}

threadFrame == <<ingestVars, brokerVars, connVars, clientVars, authVars,
                 window_seconds, bucket_size_seconds, buckets, total, adds,
                 topResult, ignored, registryVars>>

\* Mutant: the lock is never waited for.
LockNeverHeld == TRUE

\* analytics.py 70, 85: with self._lock can be entered.
LockFree == lock = 0

\* analytics.py 63-68: a thread calls add(key, n): the early return, then
\* ts = time.time(), the bucket id and the slot, all before the lock.
ThreadAdd(t, key, n) ==
    /\ tpc[t] = "idle"
    /\ calls < MaxThreadCalls
    /\ calls' = calls + 1
    /\ call' = [call EXCEPT ![t] = [NoCall EXCEPT !.op = "add", !.key = key, !.n = n,
                                                  !.ts = clock]]
    /\ tpc' = [tpc EXCEPT ![t] = IF Ignores(key, n) THEN "idle" ELSE "lock"]
    /\ UNCHANGED <<threadFrame, clock, ctr, lock, lin, linRet>>

\* analytics.py 83-84: a thread calls top(k): now_ts = time.time().
ThreadTop(t, k) ==
    /\ tpc[t] = "idle"
    /\ calls < MaxThreadCalls
    /\ calls' = calls + 1
    /\ call' = [call EXCEPT ![t] = [NoCall EXCEPT !.op = "top", !.k = k, !.ts = clock]]
    /\ tpc' = [tpc EXCEPT ![t] = "lock"]
    /\ UNCHANGED <<threadFrame, clock, ctr, lock, lin, linRet>>

\* analytics.py 70, 85: the thread enters with self._lock.  The calls run
\* one after the other take effect in the order of this step.
Acquire(t) ==
    /\ tpc[t] = "lock"
    /\ LockFree
    /\ lock' = t
    /\ tpc' = [tpc EXCEPT ![t] = "expire"]
    /\ IF call[t].op = "add"
       THEN /\ lin' = CounterAdd(lin, call[t].key, call[t].ts, call[t].n)
            /\ UNCHANGED linRet
       ELSE LET r == CounterTop(lin, call[t].k, call[t].ts)
            IN /\ lin' = r.counter
               /\ linRet' = [linRet EXCEPT ![t] = r.items]
    /\ UNCHANGED <<threadFrame, clock, ctr, call, calls>>

\* analytics.py 71, 86: self._expire_old(ts)
ThreadExpire(t) ==
    /\ tpc[t] = "expire"
    /\ ctr' = CounterExpire(ctr, call[t].ts)
    /\ tpc' = [tpc EXCEPT ![t] = IF call[t].op = "add" THEN "slot" ELSE "read"]
    /\ UNCHANGED <<threadFrame, clock, lock, call, calls, lin, linRet>>

\* The ring slot of a thread's add().
SlotOf(t) ==
    (call[t].ts \div ctr.bucket_size_seconds)
        % NumBucketsOf(ctr.window_seconds, ctr.bucket_size_seconds)

\* analytics.py 72-78: the slot is taken over when it holds another bucket.
ThreadSlot(t) ==
    /\ tpc[t] = "slot"
    /\ LET bucket_id == call[t].ts \div ctr.bucket_size_seconds
           idx == SlotOf(t)
           held == idx \in DOMAIN ctr.buckets
           reuse == IF held THEN ctr.buckets[idx].bucket_id # bucket_id ELSE TRUE
       IN ctr' = IF reuse
                 THEN [ctr EXCEPT
                         !.total = IF held THEN SubtractCounts(@, ctr.buckets[idx].counts) ELSE @,
                         !.buckets = [i \in DOMAIN ctr.buckets \cup {idx} |->
                                         IF i = idx
                                         THEN [bucket_id |-> bucket_id, counts |-> NoCounts]
                                         ELSE ctr.buckets[i]]]
                 ELSE ctr
    /\ tpc' = [tpc EXCEPT ![t] = "bucket"]
    /\ UNCHANGED <<threadFrame, clock, lock, call, calls, lin, linRet>>

\* analytics.py 72, 80: bucket.counts[key] += n, on the bucket object the
\* thread took from the slot.  Without the lock the slot may have been
\* cleared since: the object is the same, its id then is None.
ThreadBucket(t) ==
    /\ tpc[t] = "bucket"
    /\ LET idx == SlotOf(t)
           b == IF idx \in DOMAIN ctr.buckets THEN ctr.buckets[idx]
                ELSE [bucket_id |-> NoBucket, counts |-> NoCounts]
       IN ctr' = [ctr EXCEPT !.buckets =
                     [i \in DOMAIN ctr.buckets \cup {idx} |->
                         IF i = idx
                         THEN [b EXCEPT !.counts[call[t].key] = @ + call[t].n]
                         ELSE ctr.buckets[i]]]
    /\ tpc' = [tpc EXCEPT ![t] = "total"]
    /\ UNCHANGED <<threadFrame, clock, lock, call, calls, lin, linRet>>

\* analytics.py 81: self._total[key] += n reads the count ...
ThreadTotalRead(t) ==
    /\ tpc[t] = "total"
    /\ call' = [call EXCEPT ![t].read = CountOf(ctr.total, call[t].key)]
    /\ tpc' = [tpc EXCEPT ![t] = "store"]
    /\ UNCHANGED <<threadFrame, clock, ctr, lock, calls, lin, linRet>>

\* Counter: c[key] = v; a key that is not in the dict is inserted last.
SetCount(tot, key, v) ==
    IF key \in TotalKeys(tot)
    THEN [i \in 1..Len(tot) |-> IF tot[i].key = key THEN [key |-> key, count |-> v] ELSE tot[i]]
    ELSE Append(tot, [key |-> key, count |-> v])

\* analytics.py 81: ... and stores the sum; the with block ends.
ThreadTotalStore(t) ==
    /\ tpc[t] = "store"
    /\ ctr' = [ctr EXCEPT !.total = SetCount(@, call[t].key, call[t].read + call[t].n)]
    /\ lock' = 0
    /\ tpc' = [tpc EXCEPT ![t] = "idle"]
    /\ UNCHANGED <<threadFrame, clock, call, calls, lin, linRet>>

\* analytics.py 87: the list is built from most_common(k); the with block ends.
ThreadRead(t) ==
    /\ tpc[t] = "read"
    /\ call' = [call EXCEPT ![t].ret = MostCommon(ctr.total, call[t].k)]
    /\ lock' = 0
    /\ tpc' = [tpc EXCEPT ![t] = "idle"]
    /\ UNCHANGED <<threadFrame, clock, ctr, calls, lin, linRet>>

\* Time passes while threads are inside or between calls.
ThreadTick ==
    /\ \E t \in ThreadTimes :
          /\ t > clock
          /\ \A u \in ThreadTimes : u > clock => t <= u
          /\ clock' = t
    /\ UNCHANGED <<threadFrame, threadVars>>

\* ------------------------------------------------------------------ specifications

IngestStep(c) ==
    \/ IdemCreate(c)
    \/ IdemSelect(c)
    \/ InsertEvent(c)
    \/ FanOut(c)
    \/ Commit(c)
    \/ Abort(c)
    \/ PublishCheck(c)

\* Concurrent ingest requests against the store.
Next == \E c \in Calls : Begin(c) \/ IngestStep(c)

Spec == Init /\ [][Next]_vars

\* Ingest requests against a store that holds a row of key 1 whose event is
\* not set (the column is nullable; the handler tests for it on line 91).
InitUnbound ==
    /\ events = {}
    /\ feedItems = {}
    /\ notifs = {}
    /\ idemKeys = {[key |-> k, event_id |-> NULL] : k \in Keys}
    /\ seqEvent = 0
    /\ seqFeed = 0
    /\ seqNotif = 0
    /\ lockHolder = [k \in Keys |-> 0]
    /\ InitCalls /\ InitBroker
    /\ pollUser = 1 /\ InitPollClient
    /\ feedUser = 1 /\ InitFeedClient
    /\ InitAnalytics

SpecUnbound == InitUnbound /\ [][Next]_vars

\* The feed client pages through its feed while ingest calls write: the store
\* holds two FeedItems of user 1 at any timestamps and the other rows belong
\* to user 2; the first two calls insert rows of both users at created_at 1
\* and 2, which become visible when their transaction commits.
FeedWriters == {c \in Calls : c <= 2}

\* What the writers post: the fan-out to both users at created_at 2 and the
\* keyed one to user 1 at created_at 1.
FeedWrites ==
    {r \in Requests : /\ r.target_user_ids # <<>>
                      /\ r.idem_key = NoKey \/ Len(r.target_user_ids) = 1}

InitFeedWrites ==
    /\ InitFeed
    /\ feedUser = 1
    /\ \A r \in feedItems : IF r.id <= 2 THEN r.user_id = 1
                                          ELSE r.user_id = 2 /\ r.created_at = 1

NextFeedWrites ==
    \/ FeedRead
    \/ \E c \in FeedWriters : BeginWith(c, FeedWrites) \/ IngestStep(c)

SpecFeedWrites == InitFeedWrites /\ [][NextFeedWrites]_vars

\* Requests without an idempotency key.
BeginKeyless(c) == BeginWith(c, KeylessRequests)

KeylessStep(c) ==
    \/ InsertEvent(c)
    \/ FanOut(c)
    \/ Commit(c)
    \/ Abort(c)
    \/ PublishCheck(c)

\* Ingest requests, their post-commit publishes and SSE connections.
NextSSE ==
    \/ \E c \in StreamCalls : BeginKeyless(c) \/ KeylessStep(c) \/ PublishRow(c)
    \/ \E n \in Conns :
          \/ Connect(n) \/ StreamStart(n) \/ BackfillEmit(n) \/ LiveRecv(n)
          \/ Disconnect(n)

SpecSSE == Init /\ [][NextSSE]_vars

\* Requests without an idempotency key that name target users.
BeginFanOut(c) == BeginWith(c, {r \in KeylessRequests : r.target_user_ids # <<>>})

\* Ingest requests with target users racing with SSE connections that
\* resume, stream and disconnect.
NextResume ==
    \/ \E c \in StreamCalls : BeginFanOut(c) \/ KeylessStep(c) \/ PublishRow(c)
    \/ \E n \in Conns :
          \/ Connect(n) \/ StreamStart(n) \/ BackfillEmit(n) \/ LiveRecv(n) \/ Disconnect(n)

SpecResume == Init /\ [][NextResume]_vars

\* One ingest call that fans out to both users, and two connections, each
\* of any user: both users listening, or one user twice.
NextStreams ==
    \/ \E c \in {d \in Calls : d = 1} : BeginFanOut(c) \/ KeylessStep(c) \/ PublishRow(c)
    \/ \E n \in {m \in Subscribers : m <= 2} :
          \/ Connect(n) \/ StreamStart(n) \/ BackfillEmit(n) \/ LiveRecv(n) \/ Disconnect(n)

SpecStreams == Init /\ [][NextStreams]_vars

\* The broker with two handles: each is subscribed for any user, is
\* published to, is unsubscribed when its stream ends, and may be
\* unsubscribed once more.
NextUnsubscribe ==
    \/ BrokerPublish
    \/ \E n \in {m \in Subscribers : m <= 2} :
          \/ ConnectFresh(n) \/ StreamStart(n) \/ LiveRecv(n) \/ Disconnect(n)
          \/ Abandon(n) \/ UnsubscribeAgain(n)

SpecUnsubscribe == Init /\ [][NextUnsubscribe]_vars

\* A sliding-window counter: Add and Top calls at non-decreasing times.
InitTop ==
    /\ InitStore /\ InitCalls /\ InitBroker
    /\ pollUser = 1 /\ InitPollClient
    /\ feedUser = 1 /\ InitFeedClient
    /\ \E p \in WindowParams : InitCounter(p[1], p[2])
    /\ InitRegistry /\ InitThreads

NextTop ==
    \/ \E a \in AddInputs : SlidingAdd(a[1], a[2])
    \/ \E k \in 1..MaxTopK : SlidingTop(k)
    \/ Tick

SpecTop == InitTop /\ [][NextTop]_vars

\* Add calls the counter turns away: no key, n = 0, n < 0.
IgnoredInputs == {<<"", 1>>, <<"a", 0>>, <<"b", -1>>}

\* A counter with a short window, its callers passing any key and any n.
InitAdd ==
    /\ InitStore /\ InitCalls /\ InitBroker
    /\ pollUser = 1 /\ InitPollClient
    /\ feedUser = 1 /\ InitFeedClient
    /\ InitCounter(4, 2)
    /\ InitRegistry /\ InitThreads

NextAdd ==
    \/ \E a \in AddInputs \cup IgnoredInputs : SlidingAdd(a[1], a[2])
    \/ \E k \in 1..MaxTopK : SlidingTop(k)
    \/ Tick

SpecAdd == InitAdd /\ [][NextAdd]_vars

\* A counter whose callers pass their own timestamps, in any order: ts of
\* add() and now_ts of top() are arguments, nothing makes them advance.
\* The times are the first seconds of the buckets.
AnyTimes == {t \in StartTime..(StartTime + MaxHorizon) : t % bucket_size_seconds = 0}

NextAnyOrder ==
    \/ \E a \in {x \in AddInputs : x[2] = 1}, ts \in AnyTimes : SlidingAddAt(a[1], ts, a[2])
    \/ \E k \in 1..MaxTopK, now_ts \in AnyTimes : SlidingTopAt(k, now_ts)

SpecAnyOrder == InitAdd /\ [][NextAnyOrder]_vars

\* The registry: record() and top() calls at advancing times.
NextRegistry ==
    \/ \E r \in RecordInputs : Record(r[1], r[2])
    \/ \E a \in TopArgs, k \in {1, MaxTopK} : RegistryTop(a[1], a[2], k)
    \/ RegistryTick

SpecRegistry == Init /\ [][NextRegistry]_vars

\* Threads calling add() and top() of one counter.
NextThreads ==
    \/ \E t \in Threads :
          \/ \E a \in ThreadAdds : ThreadAdd(t, a[1], a[2])
          \/ ThreadTop(t, MaxTopK)
          \/ Acquire(t) \/ ThreadExpire(t) \/ ThreadSlot(t) \/ ThreadBucket(t)
          \/ ThreadTotalRead(t) \/ ThreadTotalStore(t) \/ ThreadRead(t)
    \/ ThreadTick

SpecThreads == Init /\ [][NextThreads]_vars

\* The broker on its own: subscribers come and go and take messages from
\* their queues while callers publish.
NextBroker ==
    \/ BrokerPublish
    \/ \E n \in Subscribers :
          \/ ConnectFresh(n) \/ StreamStart(n) \/ LiveRecv(n) \/ Disconnect(n) \/ Abandon(n)

SpecBroker == Init /\ [][NextBroker]_vars

\* Ingest requests publishing to connections that may be slow to drain
\* their queue.
NextDrop ==
    \/ \E c \in Calls : BeginFanOut(c) \/ KeylessStep(c) \/ PublishRow(c)
    \/ \E n \in Conns : ConnectFresh(n)

SpecDrop == Init /\ [][NextDrop]_vars

\* Ingest requests racing with a client that polls its notifications.
InitPoll ==
    /\ InitStore /\ InitCalls /\ InitBroker
    /\ pollUser \in Users /\ InitPollClient
    /\ feedUser = 1 /\ InitFeedClient
    /\ InitAnalytics

NextPoll ==
    \/ \E c \in Calls : BeginKeyless(c) \/ KeylessStep(c)
    \/ Poll

SpecPoll == InitPoll /\ [][NextPoll]_vars

\* A feed client paging through a store.
NextFeed == FeedRead

SpecFeed == InitFeed /\ [][NextFeed]_vars

\* The cursor codec and the feed reads made with its tokens.
NextCodec ==
    \/ CodecEncode
    \/ CodecForge
    \/ CodecDecode
    \/ CodecRead

SpecCodec == InitCodecStore /\ [][NextCodec]_vars

\* Readers that choose their cursor and their since: the store holds rows
\* of both users, row i belonging to user 1 when i is odd; the feed client
\* of either user reads once with a token that encode_feed_cursor made for
\* any row, its own or not, or with one of its own making, and polls once
\* with any since.
SharedTable ==
    { [id |-> i, user_id |-> 2 - (i % 2), event_id |-> i,
       created_at |-> ((i - 1) % MaxTime) + 1] : i \in 1..MaxFeedItems }

InitShared ==
    /\ feedItems = SharedTable
    /\ notifs = SharedTable
    /\ events = {[id |-> r.id, created_at |-> r.created_at] : r \in SharedTable}
    /\ idemKeys = {}
    /\ seqEvent = MaxFeedItems
    /\ seqFeed = MaxFeedItems
    /\ seqNotif = MaxFeedItems
    /\ lockHolder = [k \in Keys |-> 0]
    /\ InitCalls /\ InitBroker
    /\ pollUser \in Users /\ InitPollClient
    /\ feedUser = pollUser /\ InitFeedClient
    /\ InitAnalytics

\* One poll with a since of the client's choosing (serializers.py 35: an
\* integer that is not negative).
PollAny ==
    /\ pollResp = NoPollResp
    /\ \E s \in 0..(MaxFeedItems + 1) : PollFrom(s)

NextShared ==
    \/ CodecEncode
    \/ CodecForge
    \/ CodecDecode
    \/ CodecRead
    \/ PollAny

SpecShared == InitShared /\ [][NextShared]_vars

\* ------------------------------------------------------------------ request checks

\* X-User-Id headers a request comes with: none, not a number, zero, a
\* negative number, and the ids of the users.
UserIdHeaders == {<<>>, <<"x">>, <<"0">>, <<"-", "1">>} \cup {Digits(u) : u \in Users}

\* The user_id a read or stream names in its query string: none, not a
\* number, and the ids of the users.
UserIdParams == {<<>>, <<"x">>} \cup {Digits(u) : u \in Users}

\* int(text) of Python: ok is FALSE for ValueError.
IntText(text) ==
    IF IsNumber(text) THEN [ok |-> TRUE, n |-> Number(text)]
    ELSE IF Len(text) > 1 /\ text[1] = "-" /\ IsNumber(Tail(text))
    THEN [ok |-> TRUE, n |-> 0 - Number(Tail(text))]
    ELSE [ok |-> FALSE, n |-> 0]

\* Mutant: any integer passes for a user id.
HeaderUserIdAnyInt(raw) ==
    IF raw = <<>> \/ ~IntText(raw).ok THEN NULL ELSE IntText(raw).n

\* views.py 27-44: _get_header_user_id; NULL stands for None.
HeaderUserId(raw) ==
    IF raw = <<>> \/ ~IntText(raw).ok THEN NULL
    ELSE IF IntText(raw).n > 0 THEN IntText(raw).n ELSE NULL

\* views.py 58-74: the checks of EventIngestView.post on a body that names
\* actor_id and passes the serializer; 200 stands for "goes on".
IngestCheck(header, actor_id) ==
    IF HeaderUserId(header) = NULL THEN 401
    ELSE IF actor_id # HeaderUserId(header) THEN 400
    ELSE 200

\* views.py 201-217, 268-284: the checks of FeedView.get and
\* NotificationsView.get: the serializer refuses a user_id that is no
\* integer (400); without user_id the header's id is taken.
ReadCheck(header, user_id) ==
    IF HeaderUserId(header) = NULL THEN 401
    ELSE IF user_id # <<>> /\ ~IntText(user_id).ok THEN 400
    ELSE IF user_id # <<>> /\ IntText(user_id).n # HeaderUserId(header) THEN 403
    ELSE 200

\* views.py 324-340: the checks of NotificationsStreamView.get.
StreamCheck(header, user_id) ==
    IF HeaderUserId(header) = NULL THEN 401
    ELSE IF user_id # <<>> /\ ~IntText(user_id).ok THEN 400
    ELSE IF user_id # <<>> /\ IntText(user_id).n # HeaderUserId(header) THEN 403
    ELSE 200

\* The handler returns its error response: nothing else happens.
Reject(endpoint, header, id, status) ==
    /\ rejected' = [endpoint |-> endpoint, header |-> header, id |-> id, status |-> status]
    /\ UNCHANGED <<ingestVars, brokerVars, connVars, clientVars, analyticsVars>>

\* The client has the error response.
Answered ==
    /\ rejected # NoReject
    /\ rejected' = NoReject
    /\ UNCHANGED <<ingestVars, brokerVars, connVars, clientVars, analyticsVars>>

\* views.py 57-186: POST /api/events with any header and any actor_id.
EventPost(c) ==
    \E header \in UserIdHeaders, actor_id \in Users :
        IF IngestCheck(header, actor_id) # 200
        THEN Reject("events", header, Digits(actor_id), IngestCheck(header, actor_id))
        ELSE BeginFanOut(c)

\* views.py 323-379: GET /api/notifications/stream with any header and user_id.
StreamGet(n) ==
    \E header \in UserIdHeaders, user_id \in UserIdParams :
        IF StreamCheck(header, user_id) # 200
        THEN Reject("stream", header, user_id, StreamCheck(header, user_id))
        ELSE ConnectAs(n, {HeaderUserId(header)}, {<<>>})

\* views.py 267-305: GET /api/notifications with any header and user_id.
NotificationsGet ==
    \E header \in UserIdHeaders, user_id \in UserIdParams :
        IF ReadCheck(header, user_id) # 200
        THEN Reject("notifications", header, user_id, ReadCheck(header, user_id))
        ELSE HeaderUserId(header) = pollUser /\ Poll

\* views.py 200-253: GET /api/feed with any header and user_id.
FeedGet ==
    \E header \in UserIdHeaders, user_id \in UserIdParams :
        IF ReadCheck(header, user_id) # 200
        THEN Reject("feed", header, user_id, ReadCheck(header, user_id))
        ELSE HeaderUserId(header) = feedUser /\ FeedRead

\* The first ingest call and the first connection.
AuthCalls == {c \in Calls : c = 1}
AuthConns == {n \in Conns : n = 1}

\* Requests of every endpoint, with good and bad X-User-Id headers and
\* with actor_id and user_id that match the header or do not.
NextAuth ==
    \/ /\ rejected = NoReject
       /\ \/ \E c \in AuthCalls : EventPost(c) \/ KeylessStep(c) \/ PublishRow(c)
          \/ \E n \in AuthConns : StreamGet(n)
          \/ NotificationsGet
          \/ FeedGet
    \/ Answered

SpecAuth == Init /\ [][NextAuth]_vars

\* ------------------------------------------------------------------ properties

Success(c) == res[c].status \in {200, 201}
Created(c) == res[c].status = 201

EventIds == {e.id : e \in events}

\* The committed Events inserted by a call that carried key k.
KeyEvents(k) == {e \in events : \E c \in Calls : req[c].idem_key = k /\ ev[c] = e.id}

FeedRowsOf(e) == {r \in feedItems : r.event_id = e}
NotifRowsOf(e) == {r \in notifs : r.event_id = e}

\* One row per target of call c, and no other row, for the event e.
OneRowPerTarget(rows, c) ==
    /\ {r.user_id : r \in rows} = Range(req[c].target_user_ids)
    /\ Cardinality(rows) = Len(req[c].target_user_ids)

\* C1: the successful ingest calls that carry one Idempotency-Key all return
\* the same event_id, and the store holds what a single call produces: one
\* Event for the key, and one FeedItem and one Notification per distinct
\* target of the creating (first) call.
C1_IdempotentIngest ==
    \A k \in Keys :
        LET S == {c \in Calls : Success(c) /\ req[c].idem_key = k}
        IN S # {} =>
             /\ \A c, d \in S : res[c].event_id = res[d].event_id
             /\ Cardinality(KeyEvents(k)) = 1
             /\ \E f \in S :
                   /\ Created(f)
                   /\ KeyEvents(k) = {e \in events : e.id = res[f].event_id}
                   /\ OneRowPerTarget(FeedRowsOf(res[f].event_id), f)
                   /\ OneRowPerTarget(NotifRowsOf(res[f].event_id), f)

\* A created call with two distinct targets (three in the body) and a replay
\* of its key have both returned.
C1_Witness ==
    \E c, d \in Calls :
        /\ Created(c) /\ res[d].status = 200
        /\ req[c].idem_key = req[d].idem_key /\ req[c].idem_key # NoKey
        /\ Len(req[c].target_user_ids) = 2

\* C2: of the ingest transactions that run with one idem_key at most one holds
\* an inserted IdempotencyKey row; another one never goes on with an unbound
\* row: when it reads the row the winner has bound and committed it, so a
\* replay returns the winner's event_id and one Event is committed for the key.
C2_ConcurrentSameKey ==
    \A k \in Keys :
        /\ Cardinality({c \in Calls : req[c].idem_key = k /\ idem[c] = "new"}) <= 1
        /\ Cardinality(KeyRows(k)) <= 1
        /\ Cardinality(KeyEvents(k)) <= 1
        /\ \A c \in Calls :
              /\ idem[c] # "existing"
              /\ (req[c].idem_key = k /\ pc[c] = "select") =>
                    (KeyRows(k) # {} /\ \A row \in KeyRows(k) : row.event_id # NULL)
              /\ (req[c].idem_key = k /\ res[c].status = 200) =>
                    \E w \in Calls \ {c} :
                        /\ Created(w) /\ req[w].idem_key = k
                        /\ idem[w] = "new" /\ res[c].event_id = ev[w]

\* The winner has inserted the key and is about to commit while another
\* transaction with the same key waits at its INSERT.
C2_Witness ==
    \E w, c \in Calls :
        /\ w # c /\ req[w].idem_key = req[c].idem_key /\ req[w].idem_key # NoKey
        /\ idem[w] = "new" /\ pc[w] = "commit"
        /\ pc[c] = "idem"

\* C3: an ingest that finds its idem_key bound to an event returns 200 with
\* the bound event_id, whatever its body, writes no Event, FeedItem,
\* Notification or IdempotencyKey row and schedules no publish; the call
\* that created the event returned 201.
C3_ReplayReadOnly ==
    /\ [][\A c \in Calls :
            (/\ pc[c] = "select"
             /\ pc'[c] \notin {"select", "failed"}
             /\ \E row \in KeyRows(req[c].idem_key) : row.event_id # NULL)
            => (/\ pc'[c] = "done"
                /\ res'[c].status = 200
                /\ \E row \in KeyRows(req[c].idem_key) : res'[c].event_id = row.event_id
                /\ UNCHANGED <<storeVars, seqVars, pubVars, brokerVars>>)]_vars
    /\ [](\A c \in Calls :
            /\ res[c].status = 200 => (ev[c] = 0 /\ pub[c] = "none")
            /\ res[c].status = 201 => (ev[c] # 0 /\ ev[c] \in EventIds))

\* A replay whose targets differ from those of the call that created the event.
C3_Witness ==
    \E c, d \in Calls :
        /\ res[c].status = 200 /\ Created(d)
        /\ req[c].idem_key = req[d].idem_key
        /\ req[c].target_user_ids # req[d].target_user_ids
        /\ res[c].event_id = res[d].event_id

\* C4: in every committed store state the Event of an ingest call is there
\* together with all its FeedItem and Notification rows and the binding of
\* its key, or nothing of the call is there: a call that has not committed
\* (in flight or failed) has no Event, no fan-out row and no key row in the
\* store, and the store holds no row without its Event.
C4_AtomicIngest ==
    /\ \A c \in Calls :
          IF Created(c)
          THEN /\ ev[c] \in EventIds
               /\ OneRowPerTarget(FeedRowsOf(ev[c]), c)
               /\ OneRowPerTarget(NotifRowsOf(ev[c]), c)
               /\ req[c].idem_key # NoKey =>
                     [key |-> req[c].idem_key, event_id |-> ev[c]] \in idemKeys
          ELSE /\ ev[c] # 0 => (/\ ev[c] \notin EventIds
                               /\ FeedRowsOf(ev[c]) = {}
                               /\ NotifRowsOf(ev[c]) = {})
               /\ (req[c].idem_key # NoKey /\ res[c].status # 200) =>
                     \A row \in KeyRows(req[c].idem_key) :
                         \E w \in Calls \ {c} : Created(w) /\ ev[w] = row.event_id
    /\ \A e \in events : \E c \in Calls : Created(c) /\ ev[c] = e.id
    /\ \A r \in feedItems \cup notifs : r.event_id \in EventIds
    /\ \A row \in idemKeys : row.event_id \in EventIds

\* Every call has ended, one of them failed after its transaction had drawn
\* an Event id (the sequence is ahead of the table), another one committed
\* an event with targets under a key.
C4_Witness ==
    /\ \A c \in Calls : pc[c] \in {"done", "failed"}
    /\ \E c \in Calls : pc[c] = "failed"
    /\ seqEvent > Cardinality(events)
    /\ seqNotif > Cardinality(notifs)
    /\ \E c \in Calls : Created(c) /\ req[c].target_user_ids # <<>> /\ req[c].idem_key # NoKey

\* A message of the broker names a committed Notification row of its user,
\* one that ReadNotifications returns.
MsgCommitted(user_id, notification_id) ==
    /\ \E r \in notifs : r.id = notification_id /\ r.user_id = user_id
    /\ \E i \in 1..Len(ReadNotifications(user_id, 0, NOTIF_MAX_LIMIT).items) :
          ReadNotifications(user_id, 0, NOTIF_MAX_LIMIT).items[i].id = notification_id

\* C5: the publish of an ingest comes after its commit: every message in a
\* subscriber queue, every message a stream took from its queue and every
\* row _go() has read for publishing is a committed Notification of that
\* user, readable through ReadNotifications.
C5_PublishAfterCommit ==
    /\ \A n \in Conns :
          /\ \A i \in 1..Len(queue[n]) :
                /\ queue[n][i].user_id = cuser[n]
                /\ MsgCommitted(queue[n][i].user_id, queue[n][i].notification_id)
          /\ \A i \in 1..Len(emitted[n]) :
                emitted[n][i].kind = "live" => MsgCommitted(cuser[n], emitted[n][i].id)
    /\ \A c \in Calls : pub[c] # "none" /\ pc[c] = "done" => pubRows[c] \subseteq notifs

\* A stream has emitted a message it took from its queue.
C5_Witness ==
    \E n \in Conns : \E i \in 1..Len(emitted[n]) : emitted[n][i].kind = "live"

\* C6 (the "exactly one" of the claim): a connection emits a notification at
\* most once, counting backfill and live emissions together.
C6_ExactlyOnce ==
    \A n \in Conns : \A i, j \in 1..Len(emitted[n]) :
        (i < j /\ emitted[n][i].kind # "retry" /\ emitted[n][j].kind # "retry")
            => emitted[n][i].id # emitted[n][j].id

\* The FeedItem rows of the feed client's user.
MyFeed == {r \in feedItems : r.user_id = feedUser}

\* C7: following next_cursor from no cursor until it is null returns every
\* FeedItem of the user exactly once, in (created_at DESC, id DESC) order,
\* also when items share a created_at: what the client has seen so far is
\* in that order without repetition, and at the end it is all of the feed.
C7_FeedPagination ==
    /\ \A i \in 1..Len(seen) : \E r \in MyFeed : r.event_id = seen[i]
    /\ \A i, j \in 1..Len(seen) :
          i < j =>
             LET a == CHOOSE r \in MyFeed : r.event_id = seen[i]
                 b == CHOOSE r \in MyFeed : r.event_id = seen[j]
             IN a.created_at > b.created_at \/ (a.created_at = b.created_at /\ a.id > b.id)
    /\ feedDone => (/\ Range(seen) = {r.event_id : r \in MyFeed}
                    /\ Len(seen) = Cardinality(MyFeed))

\* The traversal is over, it took more than one page and the user's feed has
\* all MaxFeedItems rows with one created_at.
C7_Witness ==
    /\ feedDone
    /\ feedResp.cursor # NoToken
    /\ Cardinality(MyFeed) = MaxFeedItems
    /\ \A a, b \in MyFeed : a.created_at = b.created_at

\* The limit in force for the last feed read (0: the parameter is absent).
FeedLimit == IF feedResp.limit = 0 THEN FEED_DEFAULT_LIMIT ELSE feedResp.limit

\* C8: a feed page has a next_cursor exactly when it holds `limit` items, and
\* the cursor then decodes to the (created_at, id) of the last FeedItem of the
\* page; a shorter page, the empty one included, has none.
C8_NextCursor ==
    feedResp.status = 200 =>
        /\ Len(feedResp.page) <= FeedLimit
        /\ (feedResp.next_cursor # NoToken) <=> (Len(feedResp.page) = FeedLimit)
        /\ feedResp.next_cursor # NoToken =>
              LET last == feedResp.page[Len(feedResp.page)]
              IN DecodeFeedCursor(feedResp.next_cursor) =
                     [created_at |-> last.created_at, feed_item_id |-> last.id]

\* A full second page with a cursor, ending on a row whose created_at has a
\* fraction of a second.
C8_Witness ==
    /\ feedResp.status = 200
    /\ feedResp.cursor # NoToken
    /\ feedResp.next_cursor # NoToken
    /\ feedResp.page[Len(feedResp.page)].created_at % TicksPerSecond # 0

\* The limit in force for the last poll (0: the parameter is absent).
PollLimit == IF pollResp.limit = 0 THEN NOTIF_DEFAULT_LIMIT ELSE pollResp.limit

\* C9: a page of ReadNotifications holds only the user's notifications with
\* id > since, ascending by id, at most `limit` of them; next_since is the id
\* of the last one, or since for an empty page; the pages a client gets by
\* feeding next_since back have strictly ascending ids.
C9_NotificationsSince ==
    /\ \A i \in 1..Len(pollResp.items) :
          /\ pollResp.items[i].user_id = pollUser
          /\ pollResp.items[i].id > pollResp.since
          /\ pollResp.items[i] \in notifs
    /\ \A i, j \in 1..Len(pollResp.items) :
          i < j => pollResp.items[i].id < pollResp.items[j].id
    /\ Len(pollResp.items) <= PollLimit
    /\ pollResp.next_since =
          IF pollResp.items = <<>> THEN pollResp.since
          ELSE pollResp.items[Len(pollResp.items)].id
    /\ since = pollResp.next_since
    /\ \A i, j \in 1..Len(got) : i < j => got[i] < got[j]

\* The client is on a later page (since > 0) that is not empty.
C9_Witness ==
    /\ pollResp.since > 0
    /\ pollResp.items # <<>>
    /\ Len(got) >= 2

\* C10: the polling client misses nothing: every committed Notification of
\* its user whose id is not above the client's `since` has been given to it
\* (a row at or below `since` is never returned later).
C10_PollCatchesUp ==
    \A r \in notifs :
        (r.user_id = pollUser /\ r.id <= since) => \E i \in 1..Len(got) : got[i] = r.id

\* ------------------------------------------------------------------ broker

Last(q) == q[Len(q)]

\* The connection has taken no message from its queue.
NeverReceived(n) == \A i \in 1..Len(emitted[n]) : emitted[n][i].kind # "live"

\* C11: every message the broker dropped from a subscriber queue (the oldest
\* element it popped, or a new message it could not push) is a committed
\* Notification row of that subscriber's user, one that ReadNotifications
\* returns for the user with since = 0: the store keeps a copy.
C11_DroppedHasCopy ==
    \A n \in Subscribers : \A i \in 1..Len(dropped[n]) :
        /\ dropped[n][i].user_id = cuser[n]
        /\ MsgCommitted(dropped[n][i].user_id, dropped[n][i].notification_id)

\* A queue has overflowed: the broker has dropped a message.
C11_Witness == \E n \in Subscribers : dropped[n] # <<>>

C14_PublishReachesAll ==
    [][published' # published =>
        \E u \in Users :
            \A n \in Subscribers :
                IF n \in subs[u]
                THEN /\ queue'[n] # <<>>
                     /\ Last(queue'[n]) = BrokerMessage(published', u)
                     /\ sent'[n] = Append(sent[n], BrokerMessage(published', u))
                ELSE /\ queue'[n] = queue[n]
                     /\ sent'[n] = sent[n]]_vars

\* One user has two subscribers and both queues end with the last message
\* published, which went to that user.
C14_Witness ==
    \E n, m \in Subscribers, u \in Users :
        /\ n # m
        /\ published > 0
        /\ subs[u] = {n, m}
        /\ sent[n] # <<>> /\ Last(sent[n]) = BrokerMessage(published, u)
        /\ sent[m] # <<>> /\ Last(sent[m]) = BrokerMessage(published, u)
        /\ queue[n] # <<>> /\ Last(queue[n]) = BrokerMessage(published, u)
        /\ queue[m] # <<>> /\ Last(queue[m]) = BrokerMessage(published, u)

\* ------------------------------------------------------------------ SSE stream

\* C15: a connection that subscribed is unsubscribed on every exit path:
\* once it has ended, its queue is not in the broker registry.
C15_AlwaysUnsubscribed ==
    \A n \in Subscribers : cpc[n] = "ended" => \A u \in Users : n \notin subs[u]

\* The notification ids a connection has emitted from its backfill / from
\* its queue.
BackfillIds(n) == {emitted[n][i].id : i \in {j \in 1..Len(emitted[n]) : emitted[n][j].kind = "backfill"}}
LiveIds(n) == {emitted[n][i].id : i \in {j \in 1..Len(emitted[n]) : emitted[n][j].kind = "live"}}

\* The committed notifications of the connection's user after its Last-Event-ID.
Missed(n) == {r \in notifs : r.user_id = cuser[n] /\ r.id > lastEventId[n]}

AllPublished == \A c \in Calls : pc[c] = "done" => pub[c] \in {"none", "done"}

\* The stream of a resumed connection has caught up: the backfill is over,
\* the queue is empty and never overflowed, no publish is under way.
CaughtUp(n) ==
    /\ cpc[n] = "live"
    /\ lastEventId[n] > 0
    /\ queue[n] = <<>>
    /\ dropped[n] = <<>>
    /\ AllPublished

\* C17: a connection that resumed with Last-Event-ID = n and whose queue did
\* not overflow has, once it has caught up, emitted every committed
\* notification of its user with id > n, from the backfill or from the live
\* loop, however the commits interleave with the subscribe and the query.
C17_NoGapOnResume ==
    \A n \in Subscribers :
        (CaughtUp(n) /\ Cardinality(Missed(n)) <= BACKFILL_LIMIT) =>
            \A r \in Missed(n) : r.id \in BackfillIds(n) \cup LiveIds(n)

\* A resumed connection has caught up with a notification that committed
\* after its backfill query: it came through the live loop only.
C17_Witness ==
    \E n \in Subscribers :
        /\ CaughtUp(n)
        /\ \E r \in Missed(n) : r.id \in LiveIds(n) /\ r.id \notin BackfillIds(n)

\* ------------------------------------------------------------------ sliding window

\* A Top call has just returned.
IsTop == topResult # NoTop

\* The result holds every live key: k did not cut it short.
Complete == Len(topResult.items) < topResult.k \/ TotalKeys(topResult.items) = TopKeys

\* The sum of n over the Add calls of a key with ts > t.
RECURSIVE SumAdds(_, _, _)
SumAdds(i, key, t) ==
    IF i = 0 THEN 0
    ELSE SumAdds(i - 1, key, t)
         + (IF adds[i].key = key /\ adds[i].ts > t THEN adds[i].n ELSE 0)

AddedAfter(key, t) == SumAdds(Len(adds), key, t)

\* The Add calls of a key, by position in the order of the calls.
AddsOf(key) == {i \in 1..Len(adds) : adds[i].key = key}

\* C18 as stated: Top(now) counts, for each key, every Add with ts in
\* (now - W + B, now] and no Add with ts <= now - W.
C18_WindowCount ==
    (IsTop /\ Complete) =>
        \A key \in TopKeys :
            /\ AddedAfter(key, topResult.now - window_seconds + bucket_size_seconds)
                  <= CountOf(topResult.items, key)
            /\ CountOf(topResult.items, key)
                  <= AddedAfter(key, topResult.now - window_seconds)

\* C18, amended: Top(now) counts, for each key, every Add with ts in
\* (now - W + B, now] and no Add with ts <= now - ceil(W / B) * B, which is
\* now - W when B divides W.
C18_WindowCountRounded ==
    (IsTop /\ Complete) =>
        \A key \in TopKeys :
            /\ AddedAfter(key, topResult.now - window_seconds + bucket_size_seconds)
                  <= CountOf(topResult.items, key)
            /\ CountOf(topResult.items, key)
                  <= AddedAfter(key, topResult.now - NumBuckets * bucket_size_seconds)

\* W = 60, B = 5: Add(a, 100), Add(a, 101), Add(b, 101), Top(now = 110)
\* gives [(a, 2), (b, 1)].
C18_Witness ==
    /\ window_seconds = 60 /\ bucket_size_seconds = 5
    /\ Len(adds) = 3
    /\ adds[1].key = "a" /\ adds[1].ts = 100 /\ adds[1].n = 1
    /\ adds[2].key = "a" /\ adds[2].ts = 101 /\ adds[2].n = 1
    /\ adds[3].key = "b" /\ adds[3].ts = 101 /\ adds[3].n = 1
    /\ topResult.now = 110
    /\ topResult.items = <<[key |-> "a", count |-> 2], [key |-> "b", count |-> 1]>>

\* The key was added, and W + B or more have passed since its last Add.
LongGone(key) ==
    /\ AddsOf(key) # {}
    /\ \A i \in AddsOf(key) : adds[i].ts + window_seconds + bucket_size_seconds <= topResult.now

\* C19: a Top call made W + B or more after the last Add of a key does not
\* return the key, and has removed it from the totals.
C19_ExpiredKeyAbsent ==
    IsTop =>
        \A key \in TopKeys :
            LongGone(key) =>
                /\ key \notin TotalKeys(topResult.items)
                /\ key \notin TotalKeys(total)

\* A Top call returns another key while a key added with n = 2 is long gone.
C19_Witness ==
    /\ IsTop
    /\ topResult.items # <<>>
    /\ \E key \in TopKeys : LongGone(key) /\ \E i \in AddsOf(key) : adds[i].n = 2

\* What Top returns whatever the order of ties: at most k entries of the
\* totals, as many as there are when there are fewer than k, none of them
\* smaller than an entry left out, by count descending.
TopLargest ==
    LET items == topResult.items
    IN /\ Len(items) <= topResult.k
       /\ Len(items) = Min(topResult.k, Len(total))
       /\ \A i \in 1..Len(items) : items[i] \in Range(total)
       /\ \A i, j \in 1..Len(items) : i < j =>
             /\ items[i].key # items[j].key
             /\ items[i].count >= items[j].count
       /\ \A e \in Range(total) : \A i \in 1..Len(items) :
             e.key \notin TotalKeys(items) => e.count <= items[i].count

\* The first Add call of a key.
FirstAdd(key) == CHOOSE i \in AddsOf(key) : \A j \in AddsOf(key) : i <= j

\* The Add call that put the key's present entry into the totals: its
\* latest Add that found the key absent.
EntryAdd(key) ==
    CHOOSE i \in AddsOf(key) :
        /\ adds[i].created
        /\ \A j \in AddsOf(key) : adds[j].created => j <= i

\* C20 as stated: Top(k) returns at most k pairs, from the keys with the
\* largest counts, by count descending, keys with equal counts in the
\* order in which they were first added to the counter.
C20_TopOrder ==
    IsTop =>
        /\ TopLargest
        /\ \A i, j \in 1..Len(topResult.items) :
              (i < j /\ topResult.items[i].count = topResult.items[j].count) =>
                 FirstAdd(topResult.items[i].key) < FirstAdd(topResult.items[j].key)

\* C20, amended: keys with equal counts come in the order in which their
\* present entries were inserted into the totals; a key whose count expired
\* and that is added again goes behind the keys that stayed.
C20_TopOrderLive ==
    IsTop =>
        /\ TopLargest
        /\ \A i, j \in 1..Len(topResult.items) :
              (i < j /\ topResult.items[i].count = topResult.items[j].count) =>
                 EntryAdd(topResult.items[i].key) < EntryAdd(topResult.items[j].key)

\* Top returns two keys with equal counts, the one added first of all
\* behind the other: its count had expired before it was added again.
C20_Witness ==
    /\ IsTop
    /\ Len(topResult.items) = 2
    /\ topResult.items[1].count = topResult.items[2].count
    /\ FirstAdd(topResult.items[2].key) < FirstAdd(topResult.items[1].key)

\* A slot of the ring whose bucket has left the window at the time of the
\* next call: the expiry pass of an Add or a Top would clear it.
Stale(i) == buckets[i].bucket_id # NoBucket /\ buckets[i].bucket_id < MinValid(clock)

\* C21: an Add with an empty key or with n <= 0 is ignored: the call leaves
\* the buckets with their bucket ids and counts, and the totals, as they
\* were (no expiry pass, no slot reuse, no count), and every Add that is
\* turned away has an empty key or n <= 0.
C21_IgnoredAddFrame ==
    [][\A a \in AddInputs \cup IgnoredInputs :
          (a[1] = "" \/ a[2] <= 0) /\ SlidingAdd(a[1], a[2])
              => /\ UNCHANGED <<buckets, total, adds>>
                 /\ ignored' = [key |-> a[1], ts |-> clock, n |-> a[2]]]_vars

\* An Add with n < 0 was turned away at a time when a slot of the ring is
\* stale and the totals count a key: a call that went on would have changed both.
C21_Witness ==
    /\ ignored # NoAdd /\ ignored.n < 0
    /\ total # <<>>
    /\ \E i \in DOMAIN buckets : Stale(i)

\* The field of a recorded event that a dimension counts.
FieldOf(by, r) == IF by = "object_id" THEN r.object_id ELSE r.verb

\* Number of record() calls made after time `after` whose field `by` is key.
Recorded(by, key, after) ==
    Cardinality({i \in 1..Len(records) : FieldOf(by, records[i]) = key /\ records[i].ts > after})

\* The count of key is that of the recorded events in the window of length
\* w that ends at now, up to the bucket the window starts in.
InWindow(count, by, key, w, now) ==
    /\ count >= Recorded(by, key, now - w + REGISTRY_BUCKET_SIZE)
    /\ count <= Recorded(by, key, now - w)

\* Every counter holds the recorded values of its own dimension: all those
\* still inside its window, and nothing that was not recorded for it.
CountersFed ==
    \A d \in Dimensions, w \in Windows, key \in ObjectIds \cup Verbs :
        LET count == CountOf(reg[d][w].total, key)
        IN /\ count >= Recorded(d, key, clock - WindowSeconds(w) + REGISTRY_BUCKET_SIZE)
           /\ count <= Recorded(d, key, 0)

\* A top() call is answered from the counter of its (by, window), or
\* refused when either is unknown.
TopDispatched ==
    regTop # NoRegTop =>
        IF regTop.by \in Dimensions /\ regTop.window \in Windows
        THEN /\ regTop.error = ""
             /\ Len(regTop.items) <= regTop.k
             /\ \A key \in ObjectIds \cup Verbs :
                   (key \in TotalKeys(regTop.items) \/ Len(regTop.items) < regTop.k)
                       => InWindow(CountOf(regTop.items, key), regTop.by, key,
                                   WindowSeconds(regTop.window), regTop.now)
        ELSE regTop.error # "" /\ regTop.items = <<>>

\* C22: record(object_id, verb) adds the object id to the three object_id
\* counters and the verb to the three verb counters and to no other counter;
\* top(window, by, k) answers from the counter of (by, window), changes no
\* other counter, and refuses a window outside {1m, 5m, 1h} or a by outside
\* {object_id, verb} with an error, changing no counter at all.
C22_Registry ==
    /\ [](CountersFed /\ TopDispatched)
    /\ [][regTop' # NoRegTop =>
            \A d \in Dimensions, w \in Windows :
                (regTop'.error # "" \/ <<d, w>> # <<regTop'.by, regTop'.window>>)
                    => reg'[d][w] = reg[d][w]]_vars

\* A top() call with an unknown window has just been refused, after events
\* were recorded and an earlier top() expired the one-minute object counter
\* alone: the five-minute counter still holds what that one has given up,
\* and the verb counters have counted the verbs.
C22_Witness ==
    /\ regTop.error = "window"
    /\ Len(records) = MaxRecords
    /\ reg["object_id"]["1m"].total = <<>>
    /\ reg["object_id"]["5m"].total # <<>>
    /\ CountOf(reg["verb"]["1h"].total, "like") = MaxRecords

\* C23: every successful non-replay ingest has recorded its event in the
\* analytics registry by the time it returns: the registry has taken at
\* least as many record() calls as there are ingest calls that returned 201,
\* and its one-hour object_id counter is not empty once one has returned.
C23_IngestRecorded ==
    LET created == {c \in Calls : Created(c)}
    IN /\ Len(records) >= Cardinality(created)
       /\ created # {} => reg["object_id"]["1h"].total # <<>>

\* C24: Add and Top of one counter are linearizable.  Whenever no thread is
\* inside the locked section the counter is what the same calls leave when
\* they run one after another in the order in which they took the lock (no
\* Add lost or counted twice), and every Top has returned what it returns in
\* that run: the totals right after its own expiry pass.
C24_Linearizable ==
    /\ lock = 0 => ctr = lin
    /\ \A t \in Threads :
          (tpc[t] = "idle" /\ call[t].op = "top") => call[t].ret = linRet[t]

\* A thread is inside add(), about to count into a ring slot it has just
\* taken over, while another thread that read the clock one bucket earlier
\* waits for the lock.
C24_Witness ==
    \E t, u \in Threads :
        /\ lock = t /\ tpc[t] = "bucket" /\ call[t].op = "add"
        /\ tpc[u] = "lock" /\ call[u].ts < call[t].ts
        /\ ctr.total # <<>>

\* ------------------------------------------------------------------ cursor codec

UrlSafe(token) ==
    \A i \in 1..Len(token) : \E j \in 1..64 : UrlSafeAlphabet[j] = token[i]

\* C25: decode_feed_cursor(encode_feed_cursor(t, id)) is exactly (t, id) for
\* every timestamp and every id > 0, and the token has URL-safe characters
\* only, none of them the "=" of the padding.
C25_RoundTrip ==
    codecIn # NoCursor =>
        /\ codecToken = EncodeFeedCursor(codecIn.created_at, codecIn.feed_item_id)
        /\ UrlSafe(codecToken)
        /\ \A i \in 1..Len(codecToken) : codecToken[i] # "="
        /\ codecOut # NotDecoded => codecOut = codecIn

\* A timestamp with a fraction and a two-digit id, in a token whose padding
\* was stripped, came back from decode_feed_cursor.
C25_Witness ==
    /\ codecIn # NoCursor
    /\ codecIn.created_at % TicksPerSecond # 0
    /\ codecIn.feed_item_id > 9
    /\ Len(codecToken) % 4 # 0
    /\ codecOut = codecIn

\* The tokens encode_feed_cursor makes.
ValidTokens == {EncodeFeedCursor(t, i) : t \in CodecTimes, i \in CodecIds}

ValidToken(token) == token \in ValidTokens

\* C26: for every non-empty cursor that is not a valid token
\* decode_feed_cursor gives "invalid cursor" as a value and raises nothing,
\* and GET /api/feed answers 400 with no items.
C26_InvalidCursor ==
    /\ codecToken # NoToken /\ ~ValidToken(codecToken) /\ codecOut # NotDecoded
          => codecOut = NoCursor
    /\ feedResp # NoFeedResp /\ feedResp.cursor # NoToken /\ ~ValidToken(feedResp.cursor)
          => feedResp.status = 400 /\ feedResp.items = <<>>

\* ------------------------------------------------------------------ request checks

\* An X-User-Id header that is missing, no integer or not positive.
BadHeader(header) == header \notin {Digits(u) : u \in Users}

\* C27: a request that is turned away changes no state: 401 for a missing,
\* non-integer or non-positive X-User-Id on every endpoint, 400 for an
\* ingest whose actor_id is not the header's id, 403 for a read or stream
\* whose user_id is not the header's id; no Event, FeedItem, Notification
\* or IdempotencyKey row is written, no subscription is registered and
\* nothing is published.
C27_RejectedFrame ==
    [][ rejected = NoReject /\ rejected' # NoReject =>
          /\ UNCHANGED <<storeVars, seqVars, txFeed, txNotif, pubVars, subs, publishVars>>
          /\ rejected'.status \in {400, 401, 403}
          /\ BadHeader(rejected'.header) => rejected'.status = 401
          /\ ~BadHeader(rejected'.header) /\ rejected'.endpoint = "events" =>
                rejected'.status = 400 /\ rejected'.id # rejected'.header
          /\ ~BadHeader(rejected'.header) /\ rejected'.endpoint # "events"
                /\ ~BadHeader(rejected'.id) =>
                rejected'.status = 403 /\ rejected'.id # rejected'.header
          /\ rejected'.status = 403 => rejected'.endpoint # "events"
       ]_vars

\* A stream request for another user's notifications was turned away
\* while rows are in the store and a connection is subscribed.
C27_Witness ==
    /\ rejected.endpoint = "stream"
    /\ rejected.status = 403
    /\ notifs # {}
    /\ \E u \in Users : subs[u] # {}

\* ------------------------------------------------------------------ fan-out

\* The position in s at which u comes first.
FirstAt(s, u) == CHOOSE i \in 1..Len(s) : s[i] = u /\ \A j \in 1..(i - 1) : s[j] # u

\* The rows of one table that call c wrote for its event: exactly one per
\* distinct target of the body, the ids growing in the order in which the
\* targets come first in the body.
FannedOut(rows, c) ==
    LET body == req[c].data_target_user_ids
        mine == {r \in rows : r.event_id = ev[c]}
    IN /\ {r.user_id : r \in mine} = Range(body)
       /\ Cardinality(mine) = Cardinality(Range(body))
       /\ \A a, b \in mine :
             FirstAt(body, a.user_id) < FirstAt(body, b.user_id) => a.id < b.id

UniquePerUserEvent(rows) ==
    \A a, b \in rows : a.user_id = b.user_id /\ a.event_id = b.event_id => a = b

\* C28: an ingest whose target_user_ids has duplicates inserts exactly one
\* FeedItem and exactly one Notification per distinct target, in
\* first-occurrence order of the targets with strictly increasing ids; the
\* store never holds two FeedItems or two Notifications of one
\* (user_id, event_id).
C28_FanOutDedupe ==
    /\ \A c \in Calls :
          ev[c] # 0 /\ pc[c] \in {"commit", "done"} =>
             /\ FannedOut(feedItems \cup txFeed[c], c)
             /\ FannedOut(notifs \cup txNotif[c], c)
    /\ UniquePerUserEvent(feedItems)
    /\ UniquePerUserEvent(notifs)

\* A call whose body named user 2 twice has committed its rows.
C28_Witness ==
    \E c \in Calls :
        /\ Created(c)
        /\ Len(req[c].data_target_user_ids) > Cardinality(Range(req[c].data_target_user_ids))
        /\ Cardinality(FeedRowsOf(ev[c])) = 2
        /\ Cardinality(NotifRowsOf(ev[c])) = 2

NoTargets(c) == pc[c] # "idle" /\ req[c].data_target_user_ids = <<>>

\* C29: an ingest with an empty target_user_ids list inserts exactly one
\* Event, binds the idempotency key when one is given, inserts no FeedItem
\* and no Notification, and schedules no broker publish.
C29_EmptyTargets ==
    /\ [](\A c \in Calls :
            NoTargets(c) =>
               /\ txFeed[c] = {} /\ txNotif[c] = {}
               /\ pub[c] = "none" /\ pubRows[c] = {}
               /\ Created(c) =>
                     /\ Cardinality({e \in events : e.id = ev[c]}) = 1
                     /\ FeedRowsOf(ev[c]) = {} /\ NotifRowsOf(ev[c]) = {}
                     /\ req[c].idem_key # NoKey =>
                           KeyRows(req[c].idem_key)
                              = {[key |-> req[c].idem_key, event_id |-> ev[c]]})
    /\ [][\A c \in Calls :
            NoTargets(c) /\ pc[c] = "fanout" /\ pc'[c] = "commit" =>
               UNCHANGED <<seqFeed, seqNotif, feedItems, notifs, publishVars>>]_vars

\* A call with a key and no targets has created its Event, and the key is
\* bound to it.
C29_Witness ==
    \E c \in Calls :
        /\ NoTargets(c) /\ Created(c)
        /\ req[c].idem_key # NoKey
        /\ \E r \in idemKeys : r.event_id = ev[c]
        /\ feedItems = {} /\ notifs = {}

\* ------------------------------------------------------------------ idempotency keys

\* C30: the store never holds two IdempotencyKey rows of one key, and once
\* a row's event_id is set no ingest call, run after or alongside, changes
\* it to another event.
C30_KeyRowImmutable ==
    /\ [](\A a, b \in idemKeys : a.key = b.key => a = b)
    /\ [][\A r \in idemKeys : r.event_id # NULL => r \in idemKeys']_vars

\* A call created the Event of a key and a second call with that key has
\* returned the same event.
C30_Witness ==
    \E c, d \in Calls :
        /\ c # d
        /\ req[c].idem_key # NoKey /\ req[d].idem_key = req[c].idem_key
        /\ Created(c)
        /\ res[d] = [status |-> 200, event_id |-> ev[c]]
        /\ idemKeys = {[key |-> req[c].idem_key, event_id |-> ev[c]]}

\* C31: an ingest that finds a row of its key with event_id unset does not
\* short-circuit: it inserts a new Event with its fan-out rows, binds the
\* existing row to it without creating a second row of the key, and
\* returns the new event_id with 201.
C31_UnboundKeyContinues ==
    /\ \A k \in Keys : Cardinality(KeyRows(k)) = 1
    /\ \A c \in Calls :
          /\ res[c].status = 200 =>
                /\ res[c].event_id # NULL
                /\ \E d \in Calls \ {c} : Created(d) /\ ev[d] = res[c].event_id
          /\ idem[c] = "existing" /\ pc[c] = "done" =>
                /\ res[c] = [status |-> 201, event_id |-> ev[c]]
                /\ Cardinality({e \in events : e.id = ev[c]}) = 1
                /\ OneRowPerTarget(FeedRowsOf(ev[c]), c)
                /\ OneRowPerTarget(NotifRowsOf(ev[c]), c)
                /\ KeyRows(req[c].idem_key) = {[key |-> req[c].idem_key, event_id |-> ev[c]]}

\* A call found the unset row, created an Event with fan-out rows and bound
\* the row; a second call of the key got that Event back.
C31_Witness ==
    \E c, d \in Calls :
        /\ idem[c] = "existing" /\ Created(c)
        /\ FeedRowsOf(ev[c]) # {}
        /\ res[d] = [status |-> 200, event_id |-> ev[c]]

\* C37: every committed IdempotencyKey row is bound to a committed Event:
\* starting from the empty store, no state reached by ingest calls holds a
\* key row with event_id unset, and a call that fails after it reserved its
\* key leaves no row of that key behind.
C37_KeyRowsBound ==
    /\ [](\A r \in idemKeys : r.event_id # NULL /\ r.event_id \in EventIds)
    /\ [][\A c \in Calls :
            pc[c] \in InTx /\ pc'[c] = "failed" /\ idem[c] = "new" =>
                /\ idemKeys' = idemKeys
                /\ KeyRows(req[c].idem_key)' = {}]_vars

\* One call reserved the key, inserted its Event and failed; the other call
\* then reserved the same key, committed, and the only row is bound to it.
C37_Witness ==
    \E c, d \in Calls :
        /\ pc[c] = "failed" /\ req[c].idem_key # NoKey
        /\ req[d].idem_key = req[c].idem_key /\ Created(d)
        /\ seqEvent = 2 /\ Cardinality(events) = 1
        /\ idemKeys = {[key |-> req[d].idem_key, event_id |-> ev[d]]}

\* C32: while ingests insert FeedItems of the user between the page reads,
\* following next_cursor never returns a FeedItem that an earlier page of
\* the traversal returned, and never skips a FeedItem that existed when the
\* traversal began: such a row has been returned, or it still sorts after
\* the cursor the client holds.
C32_StableUnderWrites ==
    /\ \A i, j \in 1..Len(seen) : i # j => seen[i] # seen[j]
    /\ feedResp # NoFeedResp =>
          /\ feedResp.status = 200
          /\ \A c \in {DecodeFeedCursor(cursor)}, r \in atStart :
                \/ \E i \in 1..Len(seen) : seen[i] = r.event_id
                \/ /\ ~feedDone
                   /\ FeedSeek(r, c)

\* A traversal of three pages or more has ended; a row committed after it
\* began was returned by a later page, and another one, which sorts before
\* the cursor of its time, was not.
C32_Witness ==
    /\ feedDone
    /\ Len(seen) > Cardinality(atStart)
    /\ Cardinality(atStart) >= 2
    /\ feedResp.cursor # NoToken
    /\ \E r \in feedItems :
          /\ r.user_id = feedUser /\ r \notin atStart
          /\ \A i \in 1..Len(seen) : seen[i] # r.event_id

\* C33: GET /api/feed and GET /api/notifications return only rows of the
\* caller, whatever the cursor or the since: a cursor made for a row of
\* another user or made up by the client gives rows of the caller or none.
C33_OwnRowsOnly ==
    /\ \A i \in 1..Len(feedResp.page) :
          /\ feedResp.page[i] \in feedItems
          /\ feedResp.page[i].user_id = feedUser
          /\ feedResp.items[i] = feedResp.page[i].event_id
    /\ Len(feedResp.items) = Len(feedResp.page)
    /\ \A i \in 1..Len(pollResp.items) :
          /\ pollResp.items[i] \in notifs
          /\ pollResp.items[i].user_id = pollUser

\* The feed was read with the cursor of a row of the other user and gave a
\* page, and the poll with a since above 0 gave a page.
C33_Witness ==
    /\ codecIn # NoCursor
    /\ \E r \in feedItems :
          /\ r.user_id # feedUser
          /\ r.id = codecIn.feed_item_id /\ r.created_at = codecIn.created_at
    /\ feedResp.status = 200 /\ feedResp.cursor = codecToken
    /\ feedResp.page # <<>>
    /\ pollResp.since > 0 /\ pollResp.items # <<>>

\* The feed was read with a token of the client's own making that decodes
\* to a cursor, and gave a page.
C33_WitnessForged ==
    /\ codecIn = NoCursor /\ codecToken # NoToken
    /\ feedResp.status = 200 /\ feedResp.cursor = codecToken
    /\ feedResp.page # <<>>

\* The counts of key over the ring, slot by slot.
RECURSIVE RingSum(_, _)
RingSum(key, i) ==
    IF i >= NumBuckets THEN 0 ELSE buckets[i].counts[key] + RingSum(key, i + 1)

\* C34: after any Add and Top calls, their timestamps in any order, the
\* total of every key is the sum of its counts over the ring (no entry: 0),
\* no total is negative, and a slot i that holds a bucket holds one whose
\* bucket_id mod M is i.
C34_RingInvariant ==
    /\ \A key \in TopKeys : CountOf(total, key) = RingSum(key, 0)
    /\ \A j \in 1..Len(total) : total[j].count >= 0
    /\ \A j, l \in 1..Len(total) : j # l => total[j].key # total[l].key
    /\ \A i \in 0..(NumBuckets - 1) :
          IF buckets[i].bucket_id = NoBucket
          THEN \A key \in TopKeys : buckets[i].counts[key] = 0
          ELSE buckets[i].bucket_id % NumBuckets = i

\* An Add came with a timestamp older than that of the Add before it, for
\* the slot that held the newer bucket, and a Top followed.
C34_Witness ==
    /\ topResult # NoTop
    /\ total # <<>>
    /\ \E i \in 1..(Len(adds) - 1) :
          /\ adds[i + 1].ts < adds[i].ts
          /\ CurrentBucketId(adds[i + 1].ts) # CurrentBucketId(adds[i].ts)
          /\ CurrentBucketId(adds[i + 1].ts) % NumBuckets
                = CurrentBucketId(adds[i].ts) % NumBuckets

\* What Top(now_ts) reports for key in the state with ring bs and totals tot.
Reported(bs, tot, key, now_ts) == CountOf(ExpireOld(bs, tot, now_ts).total, key)

\* C35: an Add of key a at any ts leaves what Top(now) reports for another
\* key b as it was, for every now at or after ts: also when ts is older
\* than the timestamps recorded before and its slot holds a newer bucket.
C35_AddKeepsOtherKeys ==
    [][\A b \in TopKeys, now_ts \in AnyTimes :
          /\ Len(adds') = Len(adds) + 1
          /\ adds'[Len(adds')].key # b
          /\ now_ts >= adds'[Len(adds')].ts
          => Reported(buckets', total', b, now_ts) = Reported(buckets, total, b, now_ts)]_vars

\* The same for the Adds whose timestamp is not below any timestamp recorded
\* before, which is how the registry's callers that pass no ts behave.
C35_InOrderAddKeepsOtherKeys ==
    [][\A b \in TopKeys, now_ts \in AnyTimes :
          /\ Len(adds') = Len(adds) + 1
          /\ adds'[Len(adds')].key # b
          /\ now_ts >= adds'[Len(adds')].ts
          /\ \A i \in 1..Len(adds) : adds[i].ts <= adds'[Len(adds')].ts
          => Reported(buckets', total', b, now_ts) = Reported(buckets, total, b, now_ts)]_vars

\* The Notification row a stream event names.
RowOfEvent(e) == {r \in notifs : r.id = e.id}

\* C36: a subscriber registered for user u only receives messages whose
\* user_id is u: whatever the ingests, connections and publishes, every
\* message handed to its queue, waiting in it or dropped from it, and every
\* notification its stream emits, is addressed to u.
C36_OwnMessagesOnly ==
    \A n \in Subscribers :
        /\ \A u \in Users : n \in subs[u] => cuser[n] = u
        /\ \A i \in 1..Len(queue[n]) : queue[n][i].user_id = cuser[n]
        /\ \A i \in 1..Len(sent[n]) : sent[n][i].user_id = cuser[n]
        /\ \A i \in 1..Len(dropped[n]) : dropped[n][i].user_id = cuser[n]
        /\ \A i \in 1..Len(backlog[n]) : backlog[n][i].user_id = cuser[n]
        /\ \A i \in 1..Len(emitted[n]) :
              emitted[n][i].kind # "retry" =>
                  /\ RowOfEvent(emitted[n][i]) # {}
                  /\ \A r \in RowOfEvent(emitted[n][i]) : r.user_id = cuser[n]

\* An ingest published a notification to each of the two users while both
\* were connected: each connection was handed one message only, and its
\* stream emitted it.
C36_Witness ==
    \E n, m \in Subscribers :
        /\ published = 2
        /\ cuser[n] = 1 /\ cuser[m] = 2
        /\ Len(sent[n]) = 1 /\ Len(sent[m]) = 1
        /\ \E i \in 1..Len(emitted[n]) : emitted[n][i].kind = "live"
        /\ \E i \in 1..Len(emitted[m]) : emitted[m][i].kind = "live"

\* Handle n is in no set of the registry.
Unregistered(n) == \A u \in Users : n \notin subs[u]

\* C38: unsubscribe(handle) takes that handle's queue out of the registry
\* and nothing else: the other subscribers, of the same user and of other
\* users, stay registered and no queue changes; a second unsubscribe of the
\* handle changes nothing; the registry has an entry for a user exactly when
\* a queue is registered for it, never one with an empty set; and once the
\* handle is unsubscribed no publish adds a message to its queue.
C38_UnsubscribeFrame ==
    /\ [](subEntries = {u \in Users : subs[u] # {}})
    /\ [][\A n \in Subscribers :
            /\ cpc[n] \in {"backfill", "live"} /\ cpc'[n] = "ended" =>
                  /\ subs' = [u \in Users |-> subs[u] \ {n}]
                  /\ Unregistered(n)'
                  /\ queue' = queue
            /\ cpc[n] = "ended" /\ cpc'[n] = "gone" =>
                  /\ subs' = subs
                  /\ subEntries' = subEntries
                  /\ queue' = queue
            /\ cpc[n] \in {"ended", "gone"} /\ Unregistered(n) =>
                  /\ Unregistered(n)'
                  /\ queue'[n] = queue[n]
                  /\ sent'[n] = sent[n]]_vars

\* A handle that had been published to was unsubscribed twice; the other
\* handle of the same user is still registered and was published to again.
C38_Witness ==
    \E n, m \in Subscribers :
        /\ n # m
        /\ cpc[n] = "gone"
        /\ sent[n] # <<>>
        /\ cuser[m] = cuser[n] /\ m \in subs[cuser[m]]
        /\ Len(sent[m]) > Len(sent[n])
        /\ subEntries = {cuser[m]}

====
